---- MODULE Spec2Model ----
(***************************************************************************)
(* Model of the gameflow phase monitor (daemon/src/gameflow_monitor.rs):   *)
(* the GameflowMonitor control surface (start / stop / drop), the          *)
(* orchestration loop run_monitor_loop with its push wait-loop and polling *)
(* sub-loop, the phase-change handler and the delivery channel.            *)
(*                                                                         *)
(* One step of a loop is the code between two suspension points (.await).  *)
(* stop() is a synchronous function and is one step: it takes the sender,  *)
(* sends the signal and drops the sender.                                  *)
(***************************************************************************)
EXTENDS Integers, Sequences, FiniteSets, TLC

\* ------------------------------------------------------------------ bounds
\* Orchestration loops one monitor may spawn (number of effective start()s).
MaxLoops == 2
\* Phase observations handed to the phase-change handler, over all loops.
MaxObs == 2
\* Capacity of the consumer's delivery channel (chosen by the caller of start()).
ChanCap == 1
\* Cap on consecutive_failures reached through request failures alone.
MaxFailures == 6
\* Messages the server sends in one push session.
MaxFrames == 3
\* Capacity of the event channel of an LcuWebSocket (100 in the code).
EventCap == 1

\* ------------------------------------------------------- program constants
\* Duration::from_secs(1): initial and reset value of reconnect_delay.
MinDelaySecs == 1
\* Duration::from_secs(30): cap of reconnect_delay.
MaxDelaySecs == 30
\* consecutive_failures > 5 leaves the polling sub-loop.
FailureThreshold == 5

Loops == 1..MaxLoops

\* ------------------------------------------------------------ GameflowPhase
GameflowPhase ==
    {"None", "Lobby", "Matchmaking", "ReadyCheck", "ChampSelect", "GameStart",
     "FailedToLaunch", "InProgress", "Reconnect", "WaitingForStats",
     "PreEndOfGame", "EndOfGame", "TerminatedInError", "CheckedIntoTournament"}

\* The phases the environment is made to report in the checked runs: one per
\* layout class, two with the same layout, and one non-None phase whose layout
\* is None.
ObservedPhases == {"None", "Lobby", "ChampSelect", "InProgress", "FailedToLaunch"}

\* Variant: a starting game is not yet counted as in game.
is_in_game_without_GameStart(phase) == phase \in {"InProgress", "Reconnect"}

is_in_game(phase) == phase \in {"InProgress", "Reconnect", "GameStart"}

is_in_client(phase) ==
    phase \in {"Lobby", "Matchmaking", "ReadyCheck", "ChampSelect",
               "WaitingForStats", "PreEndOfGame", "EndOfGame"}

\* GameflowPhase::display_name
display_name(phase) ==
    CASE phase = "None" -> "Not Running"
      [] phase = "Lobby" -> "In Lobby"
      [] phase = "Matchmaking" -> "Finding Match"
      [] phase = "ReadyCheck" -> "Match Found"
      [] phase = "ChampSelect" -> "Champion Select"
      [] phase = "GameStart" -> "Game Starting"
      [] phase = "FailedToLaunch" -> "Failed to Launch"
      [] phase = "InProgress" -> "In Game"
      [] phase = "Reconnect" -> "Reconnecting"
      [] phase = "WaitingForStats" -> "Loading Stats"
      [] phase = "PreEndOfGame" -> "Game Ending"
      [] phase = "EndOfGame" -> "Post Game"
      [] phase = "TerminatedInError" -> "Error"
      [] phase = "CheckedIntoTournament" -> "Tournament"

TargetLayout == {"None", "ClientCentered", "GameFullscreen"}

from_phase(phase) ==
    IF is_in_game(phase) THEN "GameFullscreen"
    ELSE IF is_in_client(phase) THEN "ClientCentered"
    ELSE "None"

\* -------------------------------------------------------------- the events
\* GameflowEvent::PhaseChanged(GameflowChangeEvent { phase, display_name,
\* is_in_game, is_in_client }), as handle_phase_change builds it.
PhaseChanged(phase) ==
    [kind |-> "PhaseChanged", phase |-> phase, display_name |-> display_name(phase),
     is_in_game |-> is_in_game(phase), is_in_client |-> is_in_client(phase)]

\* `layout.layout_name().unwrap_or("none")`: the name a layout is sent under.
layout_name(layout) ==
    CASE layout = "ClientCentered" -> "client_centered"
      [] layout = "GameFullscreen" -> "game_fullscreen"
      [] OTHER -> "none"

\* GameflowEvent::StageChanged(StageChangeEvent { layout, phase, .. }), as
\* send_stage_change builds it.
StageChanged(layout, phase) ==
    [kind |-> "StageChanged", phase |-> phase, layout |-> layout_name(layout)]

\* ------------------------------------------------------------ Option, Result
\* Option<T>: None and Some(v).
NoneOpt == [some |-> FALSE]

Some(v) == [some |-> TRUE, v |-> v]

\* --------------------------------------------------- wire strings to phases
\* Phase strings the client is made to send: the fourteen names, a name of a
\* future client version, a known name in another letter case, and the empty
\* string.
WireStrings == GameflowPhase \cup {"Replay", "inprogress", ""}

\* Variant: an unknown phase string is taken for the lobby.
GameflowPhase_from_unknown_is_lobby(s) ==
    IF s \in GameflowPhase THEN s ELSE "Lobby"

\* impl From<&str> for GameflowPhase: one arm per name, `_ => None`.
GameflowPhase_from(s) ==
    CASE s = "None" -> "None"
      [] s = "Lobby" -> "Lobby"
      [] s = "Matchmaking" -> "Matchmaking"
      [] s = "ReadyCheck" -> "ReadyCheck"
      [] s = "ChampSelect" -> "ChampSelect"
      [] s = "GameStart" -> "GameStart"
      [] s = "FailedToLaunch" -> "FailedToLaunch"
      [] s = "InProgress" -> "InProgress"
      [] s = "Reconnect" -> "Reconnect"
      [] s = "WaitingForStats" -> "WaitingForStats"
      [] s = "PreEndOfGame" -> "PreEndOfGame"
      [] s = "EndOfGame" -> "EndOfGame"
      [] s = "TerminatedInError" -> "TerminatedInError"
      [] s = "CheckedIntoTournament" -> "CheckedIntoTournament"
      [] OTHER -> "None"

\* ------------------------------------------------------------- JSON values
\* A member of a JSON object as the decoders see it: absent, or present with
\* the type of its value and, for a string or a number, its text.
Absent == [present |-> FALSE, t |-> "null", s |-> ""]

Str(s) == [present |-> TRUE, t |-> "string", s |-> s]

Num(s) == [present |-> TRUE, t |-> "number", s |-> s]

Null == [present |-> TRUE, t |-> "null", s |-> ""]

Nested == [present |-> TRUE, t |-> "object", s |-> ""]

\* An element of the top-level array: a scalar, or an object with its members
\* `data`, `uri` and `eventType`.
NoMembers == [data |-> Absent, uri |-> Absent, eventType |-> Absent]

Scalar(m) == [t |-> m.t, s |-> m.s, members |-> NoMembers]

Object(data, uri, eventType) ==
    [t |-> "object", s |-> "",
     members |-> [data |-> data, uri |-> uri, eventType |-> eventType]]

\* The text of a frame: not JSON at all, or a JSON value of some type; for an
\* array, its elements.
NotJson == [json |-> FALSE, t |-> "null", items |-> <<>>]

Array(items) == [json |-> TRUE, t |-> "array", items |-> items]

NotArray(t) == [json |-> TRUE, t |-> t, items |-> <<>>]

\* serde_json::Value::as_u64: a number written as a non-negative integer.
as_u64(v) == v.t = "number" /\ v.s \in {"0", "5", "8"}

\* serde_json::Value::as_str
as_str(v) == v.t = "string"

\* serde_json::Value::get(key): a member of an object.
get(v, key) == IF v.t = "object" /\ v.members[key].present
               THEN Some(v.members[key]) ELSE NoneOpt

\* ------------------------------------------------------------ push frames
\* pub mod uris
GAMEFLOW_PHASE == "/lol-gameflow/v1/gameflow-phase"

GAMEFLOW_SESSION == "/lol-gameflow/v1/session"

\* LcuEvent { uri, event_type, data }
LcuEvent(uri, event_type, data) ==
    [uri |-> uri, event_type |-> event_type, data |-> [t |-> data.t, s |-> data.s]]

Name == Scalar(Str("OnJsonApiEvent"))

Opcode8 == Scalar(Num("8"))

\* The body of a gameflow-phase notification with payload `data`.
PhaseBody(data) == Object(data, Str(GAMEFLOW_PHASE), Str("Update"))

\* [8,"OnJsonApiEvent",{"data":"<s>","eventType":"Update","uri":".../gameflow-phase"}]
PhaseFrame(s) == Array(<<Opcode8, Name, PhaseBody(Str(s))>>)

\* Frames of the shape the client sends for events.
EventFrames ==
    {PhaseFrame(s) : s \in {"Lobby", "InProgress", "None", "Replay"}}
    \cup {Array(<<Opcode8, Name, PhaseBody(Null)>>),
          Array(<<Opcode8, Name, PhaseBody(Nested)>>),
          Array(<<Opcode8, Name, PhaseBody(Num("3"))>>),
          Array(<<Opcode8, Name, Object(Nested, Str(GAMEFLOW_SESSION), Str("Update"))>>),
          Array(<<Opcode8, Name, Object(Str("Lobby"), Str(GAMEFLOW_SESSION), Str("Create"))>>)}

\* Frames of any other shape.
OtherFrames ==
    {NotJson, NotArray("object"), NotArray("string"), Array(<<>>),
     Array(<<Scalar(Num("5")), Name>>),
     Array(<<Opcode8>>),
     Array(<<Opcode8, Name>>),
     Array(<<Scalar(Num("5")), Name, PhaseBody(Str("Lobby"))>>),
     Array(<<Scalar(Num("-8")), Name, PhaseBody(Str("Lobby"))>>),
     Array(<<Scalar(Str("8")), Name, PhaseBody(Str("Lobby"))>>),
     Array(<<Opcode8, Scalar(Num("7")), PhaseBody(Str("Lobby"))>>),
     Array(<<Opcode8, Name, Scalar(Str("Lobby"))>>),
     Array(<<Opcode8, Name, Object(Absent, Str(GAMEFLOW_PHASE), Str("Update"))>>),
     Array(<<Opcode8, Name, Object(Str("Lobby"), Absent, Str("Update"))>>),
     Array(<<Opcode8, Name, Object(Str("Lobby"), Num("1"), Str("Update"))>>),
     Array(<<Opcode8, Name, Object(Str("Lobby"), Str(GAMEFLOW_PHASE), Absent)>>),
     Array(<<Opcode8, Name, Object(Str("Lobby"), Str(GAMEFLOW_PHASE), Null)>>),
     Array(<<Opcode8, Name, PhaseBody(Str("Lobby")), Scalar(Null)>>)}

Frames == EventFrames \cup OtherFrames

\* LcuWebSocket::parse_event, one test per `?` and per early return.
parse_event(frame) ==
    IF ~frame.json THEN NoneOpt
    ELSE IF frame.t # "array" THEN NoneOpt
    ELSE IF Len(frame.items) < 1 THEN NoneOpt
    ELSE IF ~as_u64(frame.items[1]) THEN NoneOpt
    ELSE IF frame.items[1].s # "8" THEN NoneOpt
    ELSE IF Len(frame.items) < 2 THEN NoneOpt
    ELSE IF ~as_str(frame.items[2]) THEN NoneOpt
    ELSE IF Len(frame.items) < 3 THEN NoneOpt
    ELSE LET data == frame.items[3] IN
         IF ~get(data, "data").some THEN NoneOpt
         ELSE IF ~get(data, "uri").some THEN NoneOpt
         ELSE IF ~as_str(get(data, "uri").v) THEN NoneOpt
         ELSE IF ~get(data, "eventType").some THEN NoneOpt
         ELSE IF ~as_str(get(data, "eventType").v) THEN NoneOpt
         ELSE Some(LcuEvent(get(data, "uri").v.s, get(data, "eventType").v.s,
                            get(data, "data").v))

\* The notifications the frames decode to.
Events == {parse_event(f).v : f \in {g \in Frames : parse_event(g).some}}

\* Variant: the resource path of a notification is not looked at.
parse_gameflow_event_any_uri(event) ==
    IF as_str(event.data) THEN Some(GameflowPhase_from(event.data.s)) ELSE NoneOpt

\* parse_gameflow_event
parse_gameflow_event(event) ==
    IF event.uri = GAMEFLOW_PHASE
    THEN IF as_str(event.data)
         THEN Some(GameflowPhase_from(event.data.s))
         ELSE NoneOpt
    ELSE NoneOpt

\* ------------------------------------------------------- the phase request
\* Result<T>: Ok(v) and Err(e).
Ok(v) == [ok |-> TRUE, v |-> v]

Err(e) == [ok |-> FALSE, e |-> e]

\* What a phase request comes back with: no response at all (the transport
\* failed), or a status and a body; the body is a JSON value or no JSON.
Response(status, body) == [sent |-> TRUE, status |-> status, body |-> body]

NoResponse == [sent |-> FALSE, status |-> 0, body |-> Absent]

Responses ==
    {NoResponse}
    \cup {Response(200, Str(s)) : s \in {"Lobby", "InProgress", "None", "Replay"}}
    \cup {Response(200, Nested), Response(200, Absent), Response(204, Absent),
          Response(404, Nested), Response(404, Str("Lobby")), Response(500, Absent),
          Response(302, Absent)}

\* StatusCode::is_success
is_success(status) == status \in 200..299

\* Variant: a non-success status is an error of the request.
get_gameflow_phase_status_is_error(response) ==
    IF ~response.sent THEN Err("LeagueNotRunning")
    ELSE IF ~is_success(response.status) THEN Err("Other")
    ELSE IF ~(response.body.present /\ as_str(response.body)) THEN Err("Other")
    ELSE Ok(GameflowPhase_from(response.body.s))

\* LcuClient::get_gameflow_phase on the outcome of its request.
get_gameflow_phase(response) ==
    IF ~response.sent THEN Err("LeagueNotRunning")
    ELSE IF ~is_success(response.status) THEN Ok("None")
    ELSE IF ~(response.body.present /\ as_str(response.body)) THEN Err("Other")
    ELSE Ok(GameflowPhase_from(response.body.s))

\* ------------------------------------------------------ the credential file
\* The content of the credential file as its colon-delimited fields
\* (`content.trim().split(':')`, which yields at least one field).
Lockfile(port) == <<"LeagueClient", "4321", port, "secret", "https">>

LockfileContents ==
    {Lockfile("52437"), Lockfile("60001"), Lockfile("port"), Lockfile("70000"),
     <<"LeagueClient", "4321", "52437", "secret", "https", "extra">>,
     <<"LeagueClient", "4321", "52437", "secret">>,
     <<"LeagueClient", "4321", "52437">>,
     <<"LeagueClient", "4321">>,
     <<"52437">>,
     <<"">>}

\* No credential file (or no installation found).
NoLockfile == <<>>

\* str::parse::<u16>
parse_u16(s) ==
    CASE s = "52437" -> Ok(52437)
      [] s = "60001" -> Ok(60001)
      [] s = "4321" -> Ok(4321)
      [] OTHER -> Err("ParseIntError")

\* LcuConnection { port, auth_token, protocol }
LcuConnection(port, auth_token, protocol) ==
    [port |-> port, auth_token |-> auth_token, protocol |-> protocol]

\* Variant: missing fields are taken as empty and the port as 0.
parse_lockfile_content_lenient(parts) ==
    LET field(i) == IF i <= Len(parts) THEN parts[i] ELSE "" IN
    Ok(LcuConnection(IF parse_u16(field(3)).ok THEN parse_u16(field(3)).v ELSE 0,
                     field(4), field(5)))

\* LcuConnection::parse_lockfile_content
parse_lockfile_content(parts) ==
    IF Len(parts) < 5 THEN Err("Other")
    ELSE IF ~parse_u16(parts[3]).ok THEN Err("Other")
    ELSE Ok(LcuConnection(parse_u16(parts[3]).v, parts[4], parts[5]))

VARIABLES
    \* GameflowMonitor
    shutdown_tx,           \* 0 = None, l = Some(sender of loop l's shutdown channel)
    dropped,               \* the monitor value has been dropped
    spawned,               \* number of orchestration loops spawned so far
    last_call,             \* outcome of the most recent start()/stop()/drop
    \* one orchestration loop per spawn
    pc,                    \* position of loop l
    last_phase,
    last_layout,
    mode,
    reconnect_delay,
    consecutive_failures,
    shutdown_rx,           \* "empty" | "message" | "closed" (message taken, sender gone)
    ws_open,               \* the loop holds a connected LcuWebSocket
    cur_phase,             \* argument `phase` of the running handle_phase_change
    ret,                   \* call site of the running handle_phase_change
    sd_seen,               \* where the loop observed the shutdown signal
    \* delivery channel and consumer
    chan,
    rx_open,
    received,
    \* history
    sent,                  \* every event handed to event_tx.send, in order, with its loop
    observations,          \* every phase handed to handle_phase_change, with its loop
    slept,                 \* loop l has completed a backoff sleep since its latest
                           \* successful push connect or poll (since its spawn, if none)
    \* the game client's installation
    lockfile,              \* fields of the credential file, NoLockfile if there is none
    conn,                  \* LcuConnection read by the latest successful discovery
    \* one LcuWebSocket (lcu_websocket.rs)
    lcu_ws,                \* "none" | "live" | "dropped": the LcuWebSocket value
    read,                  \* messages the server sent that the task has not read yet
    task,                  \* the receiving task: where it is and the event it holds
    event_rx,              \* the buffer of the event channel
    taken,                 \* history: every message the task took from the stream
    returned,              \* history: every value recv() returned, in order
    \* one application of a decoding function
    fn_call,               \* the function and its argument
    fn_result,             \* what it returned
    \* one LeagueIntegration (integration.rs)
    integration,           \* its fields, once it is constructed
    status,                \* the IntegrationStatus the latest get_status returned
    queued,                \* history: every event get_status pushed, in order
    forwarded,             \* history: ids of the in-game events poll_events
                           \* returned since the latest session_start
    calls,                 \* number of calls made on the integration and the poller
    \* one GamePoller (poller.rs)
    poller_last_event_id,  \* the value behind last_event_id
    broadcast,             \* history: ids of the events sent since the latest reset
    \* one LiveMatchService (live_match_service.rs) and its tasks
    live_shutdown_tx,      \* 0 = None, t = Some(sender of task t's shutdown channel)
    live_task,             \* per task: its position and its shutdown receiver
    live_events            \* history: every event handed to event_tx.send, with its task

monitorVars == <<shutdown_tx, dropped, spawned, last_call>>
loopVars == <<pc, last_phase, last_layout, mode, reconnect_delay,
              consecutive_failures, shutdown_rx, ws_open, cur_phase, ret, sd_seen>>
chanVars == <<chan, rx_open, received>>
histVars == <<sent, observations, slept>>
clientVars == <<lockfile, conn>>
wsVars == <<lcu_ws, read, task, event_rx, taken, returned>>
callVars == <<fn_call, fn_result>>
integrationVars == <<integration, status, queued, forwarded, calls>>
pollerVars == <<poller_last_event_id, broadcast>>
liveVars == <<live_shutdown_tx, live_task, live_events>>
appVars == <<integrationVars, pollerVars, liveVars>>
envVars == <<clientVars, wsVars, callVars, appVars>>
vars == <<monitorVars, loopVars, chanVars, histVars, envVars>>

\* ---------------------------------------------------------------- helpers
Min(a, b) == IF a < b THEN a ELSE b

is_running == shutdown_tx # 0

\* No connection info read yet.
NoConnection == LcuConnection(0, "", "")

\* Variant: connection info read once is kept for the later attempts.
from_lockfile_cached(file) ==
    IF conn # NoConnection THEN Ok(conn)
    ELSE IF file = NoLockfile THEN Err("LeagueNotRunning")
    ELSE parse_lockfile_content(file)

\* LcuConnection::from_lockfile on the state of the file system: no
\* installation or no file is LeagueNotRunning, else the content is parsed.
from_lockfile(file) ==
    IF file = NoLockfile THEN Err("LeagueNotRunning")
    ELSE parse_lockfile_content(file)

\* The receiving task: not spawned, reading the stream, suspended in
\* event_tx.send with the event it holds, or ended.
Task(at, held) == [at |-> at, held |-> held]

NoCall == [fn |-> "none"]

NoResult == [done |-> FALSE]

\* The game client is not installed or not running.
InitClient ==
    /\ lockfile = NoLockfile
    /\ conn = NoConnection

\* No LcuWebSocket exists.
InitWs ==
    /\ lcu_ws = "none"
    /\ read = <<>>
    /\ task = Task("unspawned", <<>>)
    /\ event_rx = <<>>
    /\ taken = <<>>
    /\ returned = <<>>

\* No decoding function is being applied.
InitNoCall ==
    /\ fn_call = NoCall
    /\ fn_result = NoResult

\* LeagueIntegration::new() has not run.
NotConstructed == [constructed |-> FALSE]

\* No IntegrationStatus has been returned.
NoStatus == [returned |-> FALSE]

\* No LeagueIntegration is constructed, the GamePoller is as GamePoller::new
\* leaves it, and the LiveMatchService is as LiveMatchService::new leaves it.
InitApp ==
    /\ integration = NotConstructed
    /\ status = NoStatus
    /\ queued = <<>>
    /\ forwarded = <<>>
    /\ calls = 0
    /\ poller_last_event_id = -1
    /\ broadcast = <<>>
    /\ live_shutdown_tx = 0
    /\ live_task = [t \in Loops |-> [pc |-> "unspawned", rx |-> "empty"]]
    /\ live_events = <<>>

InitEnv == InitClient /\ InitWs /\ InitNoCall /\ InitApp

\* run_monitor_loop's locals at spawn.
InitMonitor ==
    /\ shutdown_tx = 0
    /\ dropped = FALSE
    /\ spawned = 0
    /\ last_call = "none"
    /\ pc = [l \in Loops |-> "unspawned"]
    /\ last_phase = [l \in Loops |-> "None"]
    /\ last_layout = [l \in Loops |-> "None"]
    /\ mode = [l \in Loops |-> "Polling"]
    /\ reconnect_delay = [l \in Loops |-> MinDelaySecs]
    /\ consecutive_failures = [l \in Loops |-> 0]
    /\ shutdown_rx = [l \in Loops |-> "empty"]
    /\ ws_open = [l \in Loops |-> FALSE]
    /\ cur_phase = [l \in Loops |-> "None"]
    /\ ret = [l \in Loops |-> "-"]
    /\ sd_seen = [l \in Loops |-> "none"]
    /\ chan = <<>>
    /\ rx_open = TRUE
    /\ received = <<>>
    /\ sent = <<>>
    /\ observations = <<>>
    /\ slept = [l \in Loops |-> FALSE]

Init == InitMonitor /\ InitEnv

\* ------------------------------------------------------- GameflowMonitor API
\* Variant: start() without the already-running check.
NeverAlreadyRunning == FALSE

\* start(): `if self.shutdown_tx.is_some() { return Ok(()) }`
AlreadyRunning == shutdown_tx # 0

\* `limit` caps the number of loops the caller's start() calls may spawn.
StartWithin(limit) ==
    /\ ~dropped
    /\ IF AlreadyRunning
       THEN /\ last_call' = "start_noop"
            /\ UNCHANGED <<shutdown_tx, dropped, spawned, loopVars>>
       ELSE /\ spawned < limit
            /\ spawned' = spawned + 1
            /\ shutdown_tx' = spawned + 1
            /\ pc' = [pc EXCEPT ![spawned + 1] = "top"]
            /\ last_call' = "start_spawned"
            /\ UNCHANGED <<dropped, last_phase, last_layout, mode, reconnect_delay,
                           consecutive_failures, shutdown_rx, ws_open, cur_phase,
                           ret, sd_seen>>
    /\ UNCHANGED <<chanVars, histVars>>
    /\ UNCHANGED envVars

\* start() of a caller that may restart the monitor after stop().
start == StartWithin(MaxLoops)

\* start() of a caller that starts the monitor at most once.
start_once == StartWithin(1)

\* `if let Some(tx) = self.shutdown_tx.take() { let _ = tx.send(()); }`
\* The message is queued for the loop's receiver and the sender is dropped.
SignalSent(rx) == IF rx = "empty" THEN "message" ELSE rx

\* Variant: stop() sends on a borrowed sender (as_ref) instead of taking it.
stop_body_keep_sender(call) ==
    IF shutdown_tx # 0
    THEN /\ shutdown_rx' = [shutdown_rx EXCEPT ![shutdown_tx] = SignalSent(@)]
         /\ last_call' = call \o "_sent"
         /\ UNCHANGED shutdown_tx
    ELSE /\ last_call' = call \o "_noop"
         /\ UNCHANGED <<shutdown_tx, shutdown_rx>>

stop_body(call) ==
    IF shutdown_tx # 0
    THEN /\ shutdown_rx' = [shutdown_rx EXCEPT ![shutdown_tx] = SignalSent(@)]
         /\ shutdown_tx' = 0
         /\ last_call' = call \o "_sent"
    ELSE /\ last_call' = call \o "_noop"
         /\ UNCHANGED <<shutdown_tx, shutdown_rx>>

stop ==
    /\ ~dropped
    /\ stop_body("stop")
    /\ UNCHANGED <<dropped, spawned, pc, last_phase, last_layout, mode,
                   reconnect_delay, consecutive_failures, ws_open, cur_phase, ret,
                   sd_seen, chanVars, histVars>>
    /\ UNCHANGED envVars

\* impl Drop: `self.stop()`; the monitor is gone afterwards.
drop ==
    /\ ~dropped
    /\ dropped' = TRUE
    /\ stop_body("drop")
    /\ UNCHANGED <<spawned, pc, last_phase, last_layout, mode,
                   reconnect_delay, consecutive_failures, ws_open, cur_phase, ret,
                   sd_seen, chanVars, histVars>>
    /\ UNCHANGED envVars

\* ------------------------------------------------- the orchestration loop
\* The locals of loop l as one record, and their write-back.
Cur(l) ==
    [pc |-> pc[l], last_phase |-> last_phase[l], last_layout |-> last_layout[l],
     mode |-> mode[l], delay |-> reconnect_delay[l], cf |-> consecutive_failures[l],
     rx |-> shutdown_rx[l], ws |-> ws_open[l], phase |-> cur_phase[l],
     ret |-> ret[l], seen |-> sd_seen[l]]

Upd(l, s) ==
    /\ pc' = [pc EXCEPT ![l] = s.pc]
    /\ last_phase' = [last_phase EXCEPT ![l] = s.last_phase]
    /\ last_layout' = [last_layout EXCEPT ![l] = s.last_layout]
    /\ mode' = [mode EXCEPT ![l] = s.mode]
    /\ reconnect_delay' = [reconnect_delay EXCEPT ![l] = s.delay]
    /\ consecutive_failures' = [consecutive_failures EXCEPT ![l] = s.cf]
    /\ shutdown_rx' = [shutdown_rx EXCEPT ![l] = s.rx]
    /\ ws_open' = [ws_open EXCEPT ![l] = s.ws]
    /\ cur_phase' = [cur_phase EXCEPT ![l] = s.phase]
    /\ ret' = [ret EXCEPT ![l] = s.ret]
    /\ sd_seen' = [sd_seen EXCEPT ![l] = s.seen]

\* A receive on the shutdown channel that resolved: the message, if any, is
\* taken; with the sender gone the channel is closed.
Observe(s, where) ==
    [s EXCEPT !.rx = "closed", !.seen = IF s.seen = "none" THEN where ELSE s.seen]

\* Variant: the select waits for the timer although the shutdown receive is ready.
PollSelectTimerFirst(s) == [s EXCEPT !.pc = "poll_wait"]

\* First poll of the select of try_polling_mode: a fresh sleep(poll_interval) is
\* pending, so a shutdown receive that is already resolved wins and the sub-loop
\* returns PollResult::Shutdown, on which run_monitor_loop breaks.
PollSelect(s) ==
    IF s.rx = "empty"
    THEN [s EXCEPT !.pc = "poll_wait"]
    ELSE [Observe(s, "poll") EXCEPT !.pc = "done", !.cf = 0]

\* try_polling_mode is entered: `let mut consecutive_failures = 0`.
EnterPolling(s) == PollSelect([s EXCEPT !.cf = 0])

\* Variant: the push session is kept when the loop falls through to polling.
AfterWebsocketOkKeepSession(s) ==
    EnterPolling([s EXCEPT !.mode = "WebSocket", !.delay = MinDelaySecs])

\* run_monitor_loop, `Ok(()) =>` arm after try_websocket_mode returned (the
\* LcuWebSocket is dropped on return), then the fall-through to polling.
AfterWebsocketOk(s) ==
    EnterPolling([s EXCEPT !.ws = FALSE, !.mode = "WebSocket", !.delay = MinDelaySecs])

\* Variant: a failed push connect is retried at once, without polling.
AfterWebsocketErrRetry(s) ==
    [s EXCEPT !.pc = "top", !.mode = IF s.mode = "WebSocket" THEN "Polling" ELSE s.mode]

\* run_monitor_loop, `Err(e) =>` arm, then the fall-through to polling.
AfterWebsocketErr(s) ==
    EnterPolling([s EXCEPT !.mode = IF s.mode = "WebSocket" THEN "Polling" ELSE s.mode])

\* Variant: a disconnected client ends the loop instead of backing off.
AfterPollBreakOnDisconnect(s, result) ==
    IF result = "ClientConnected"
    THEN [s EXCEPT !.pc = "top", !.delay = MinDelaySecs, !.cf = 0]
    ELSE [s EXCEPT !.pc = "done", !.cf = 0]

\* Variant: a successful poll keeps the loop in the polling sub-loop.
AfterPollStayPolling(s, result) ==
    IF result = "ClientConnected"
    THEN PollSelect([s EXCEPT !.delay = MinDelaySecs, !.cf = 0])
    ELSE [s EXCEPT !.pc = "backoff", !.cf = 0]

\* Variant: the ClientConnected arm leaves the reconnect delay as it is.
AfterPollKeepDelay(s, result) ==
    IF result = "ClientConnected"
    THEN [s EXCEPT !.pc = "top", !.cf = 0]
    ELSE [s EXCEPT !.pc = "backoff", !.cf = 0]

\* run_monitor_loop, `match poll_result` for the two results that keep looping.
AfterPoll(s, result) ==
    IF result = "ClientConnected"
    THEN [s EXCEPT !.pc = "top", !.delay = MinDelaySecs, !.cf = 0]
    ELSE [s EXCEPT !.pc = "backoff", !.cf = 0]

\* Variant: the sub-loop gives up when the threshold is reached, not exceeded.
TooManyFailuresAtThreshold(cf) == cf >= FailureThreshold

\* `if consecutive_failures > 5`
TooManyFailures(cf) == cf > FailureThreshold

\* handle_phase_change returns to its call site; in the discovery-failure arm
\* the threshold test follows.
Return(s) ==
    LET t == [s EXCEPT !.phase = "None", !.ret = "-"] IN
    CASE s.ret = "ws" -> [t EXCEPT !.pc = "ws_wait"]
      [] s.ret = "poll_ok" -> AfterPoll(t, "ClientConnected")
      [] s.ret = "poll_err" ->
            IF TooManyFailures(t.cf)
            THEN AfterPoll(t, "ClientDisconnected")
            ELSE PollSelect(t)

\* Variant: the handler compares layouts instead of phases.
PhaseDiffersByLayout(phase, last) == from_phase(phase) # from_phase(last)

\* handle_phase_change: `if phase != *last_phase`
PhaseDiffers(phase, last) == phase # last

\* Variant: a layout change is announced first, the phase change not at all.
handle_phase_change_layout_first(s, phase, site) ==
    IF phase # s.last_phase
    THEN [s EXCEPT !.pc = IF from_phase(phase) # s.last_layout
                          THEN "send_stage" ELSE "send_phase",
                   !.phase = phase, !.ret = site]
    ELSE Return([s EXCEPT !.ret = site])

\* handle_phase_change up to its first suspension point.
handle_phase_change(s, phase, site) ==
    IF PhaseDiffers(phase, s.last_phase)
    THEN [s EXCEPT !.pc = "send_phase", !.phase = phase, !.ret = site]
    ELSE Return([s EXCEPT !.ret = site])

\* Variant: the layout is announced with every phase change.
LayoutAlwaysDiffers(new_layout, last) == TRUE

\* `if new_layout != *last_layout`
LayoutDiffers(new_layout, last) == new_layout # last

\* handle_phase_change after the PhaseChanged send completed.
AfterPhaseSent(s) ==
    IF LayoutDiffers(from_phase(s.phase), s.last_layout)
    THEN [s EXCEPT !.pc = "send_stage"]
    ELSE Return([s EXCEPT !.last_phase = s.phase])

\* Variant: the new layout is announced but not stored.
AfterStageSentLayoutNotStored(s) == Return([s EXCEPT !.last_phase = s.phase])

\* handle_phase_change after send_stage_change returned.
AfterStageSent(s) ==
    Return([s EXCEPT !.last_layout = from_phase(s.phase), !.last_phase = s.phase])

\* A phase reaches the handler: recorded in the history.
Observed(l, phase) ==
    /\ Len(observations) < MaxObs
    /\ observations' = Append(observations, [loop |-> l, phase |-> phase])

\* Variant: try_send instead of send: an event is dropped when the channel is full.
SendOrDrop(l, ev) ==
    /\ chan' = IF rx_open /\ Len(chan) < ChanCap THEN Append(chan, ev) ELSE chan
    /\ sent' = Append(sent, [loop |-> l, ev |-> ev])
    /\ UNCHANGED <<rx_open, received>>

\* `event_tx.send(ev).await`, result ignored: completes when the channel has
\* room (the event is queued) or when the receiver is closed (an error).
Send(l, ev) ==
    /\ ~rx_open \/ Len(chan) < ChanCap
    /\ chan' = IF rx_open THEN Append(chan, ev) ELSE chan
    /\ sent' = Append(sent, [loop |-> l, ev |-> ev])
    /\ UNCHANGED <<rx_open, received>>

\* Variant: no shutdown check at the top of the loop.
LoopTopNoCheck(l) ==
    /\ pc[l] = "top"
    /\ Upd(l, [Cur(l) EXCEPT !.pc = "connect"])
    /\ UNCHANGED <<monitorVars, chanVars, histVars>>
    /\ UNCHANGED envVars

\* Top of `loop`: `if shutdown_rx.try_recv().is_ok() { break }`, else
\* try_websocket_mode starts connecting.
LoopTop(l) ==
    /\ pc[l] = "top"
    /\ Upd(l, IF shutdown_rx[l] = "message"
              THEN [Observe(Cur(l), "top") EXCEPT !.pc = "done"]
              ELSE [Cur(l) EXCEPT !.pc = "connect"])
    /\ UNCHANGED <<monitorVars, chanVars, histVars>>
    /\ UNCHANGED envVars

\* `LcuWebSocket::connect().await?` fails (discovery, handshake or subscription).
ConnectFails(l) ==
    /\ pc[l] = "connect"
    /\ Upd(l, AfterWebsocketErr(Cur(l)))
    /\ UNCHANGED <<monitorVars, chanVars, histVars>>
    /\ UNCHANGED envVars

\* `LcuWebSocket::connect().await?` succeeds: the wait-loop is entered.
ConnectSucceeds(l) ==
    /\ pc[l] = "connect"
    /\ Upd(l, [Cur(l) EXCEPT !.pc = "ws_wait", !.ws = TRUE])
    /\ slept' = [slept EXCEPT ![l] = FALSE]
    /\ UNCHANGED <<monitorVars, chanVars, sent, observations>>
    /\ UNCHANGED envVars

\* select, `event = ws.recv()` with Some(event) that parses to a phase.
WsEvent(l, phase) ==
    /\ pc[l] = "ws_wait"
    /\ Observed(l, phase)
    /\ Upd(l, handle_phase_change(Cur(l), phase, "ws"))
    /\ UNCHANGED <<monitorVars, chanVars, sent, slept>>
    /\ UNCHANGED envVars

\* select, `event = ws.recv()` with None: `return Ok(())`.
WsClosed(l) ==
    /\ pc[l] = "ws_wait"
    /\ Upd(l, AfterWebsocketOk(Cur(l)))
    /\ UNCHANGED <<monitorVars, chanVars, histVars>>
    /\ UNCHANGED envVars

\* select, `_ = shutdown_rx.recv()`: `return Ok(())`.
WsShutdown(l) ==
    /\ pc[l] = "ws_wait"
    /\ shutdown_rx[l] # "empty"
    /\ Upd(l, AfterWebsocketOk(Observe(Cur(l), "ws")))
    /\ UNCHANGED <<monitorVars, chanVars, histVars>>
    /\ UNCHANGED envVars

\* handle_phase_change: the PhaseChanged send completes.
SendPhase(l) ==
    /\ pc[l] = "send_phase"
    /\ Send(l, PhaseChanged(cur_phase[l]))
    /\ Upd(l, AfterPhaseSent(Cur(l)))
    /\ UNCHANGED <<monitorVars, observations, slept>>
    /\ UNCHANGED envVars

\* send_stage_change: the StageChanged send completes.
SendStage(l) ==
    /\ pc[l] = "send_stage"
    /\ Send(l, StageChanged(from_phase(cur_phase[l]), cur_phase[l]))
    /\ Upd(l, AfterStageSent(Cur(l)))
    /\ UNCHANGED <<monitorVars, observations, slept>>
    /\ UNCHANGED envVars

\* select, sleep(poll_interval) elapsed and LcuClient::new() is Ok: the request
\* get_gameflow_phase() is in flight.
PollDiscoverOk(l) ==
    /\ pc[l] = "poll_wait"
    /\ Upd(l, [Cur(l) EXCEPT !.pc = "poll_req"])
    /\ UNCHANGED <<monitorVars, chanVars, histVars>>
    /\ UNCHANGED envVars

\* select, sleep(poll_interval) elapsed and LcuClient::new() is Err.
PollDiscoverFails(l) ==
    /\ pc[l] = "poll_wait"
    /\ LET s == [Cur(l) EXCEPT !.cf = @ + 1] IN
       IF s.last_layout # "None"
       THEN /\ Observed(l, "None")
            /\ Upd(l, handle_phase_change(s, "None", "poll_err"))
       ELSE /\ Upd(l, Return([s EXCEPT !.ret = "poll_err"]))
            /\ UNCHANGED observations
    /\ UNCHANGED <<monitorVars, chanVars, sent, slept>>
    /\ UNCHANGED envVars

\* select, `_ = shutdown_rx.recv()`: `return PollResult::Shutdown`, then break.
PollShutdown(l) ==
    /\ pc[l] = "poll_wait"
    /\ shutdown_rx[l] # "empty"
    /\ Upd(l, [Observe(Cur(l), "poll") EXCEPT !.pc = "done", !.cf = 0])
    /\ UNCHANGED <<monitorVars, chanVars, histVars>>
    /\ UNCHANGED envVars

\* get_gameflow_phase() returned Ok(phase).
PollResponse(l, phase) ==
    /\ pc[l] = "poll_req"
    /\ Observed(l, phase)
    /\ Upd(l, handle_phase_change([Cur(l) EXCEPT !.cf = 0], phase, "poll_ok"))
    /\ slept' = [slept EXCEPT ![l] = FALSE]
    /\ UNCHANGED <<monitorVars, chanVars, sent>>
    /\ UNCHANGED envVars

\* get_gameflow_phase() returned Err: count it and go round the sub-loop.
PollRequestFails(l) ==
    /\ pc[l] = "poll_req"
    /\ consecutive_failures[l] < MaxFailures
    /\ Upd(l, PollSelect([Cur(l) EXCEPT !.cf = @ + 1]))
    /\ UNCHANGED <<monitorVars, chanVars, histVars>>
    /\ UNCHANGED envVars

\* Variant: the cap is applied before the doubling instead of after it.
BackoffElapsedCapFirst(l) ==
    /\ pc[l] = "backoff"
    /\ Upd(l, [Cur(l) EXCEPT !.pc = "top",
                             !.delay = Min(@, MaxDelaySecs) * 2])
    /\ slept' = [slept EXCEPT ![l] = TRUE]
    /\ UNCHANGED <<monitorVars, chanVars, sent, observations>>
    /\ UNCHANGED envVars

\* `tokio::time::sleep(reconnect_delay).await` elapsed, then the delay doubles.
BackoffElapsed(l) ==
    /\ pc[l] = "backoff"
    /\ Upd(l, [Cur(l) EXCEPT !.pc = "top",
                             !.delay = Min(@ * 2, MaxDelaySecs)])
    /\ slept' = [slept EXCEPT ![l] = TRUE]
    /\ UNCHANGED <<monitorVars, chanVars, sent, observations>>
    /\ UNCHANGED envVars

\* Any step of loop l.
LoopStep(l) ==
    \/ LoopTop(l)
    \/ ConnectFails(l)
    \/ ConnectSucceeds(l)
    \/ \E phase \in ObservedPhases : WsEvent(l, phase)
    \/ WsClosed(l)
    \/ WsShutdown(l)
    \/ SendPhase(l)
    \/ SendStage(l)
    \/ PollDiscoverOk(l)
    \/ PollDiscoverFails(l)
    \/ PollShutdown(l)
    \/ \E phase \in ObservedPhases : PollResponse(l, phase)
    \/ PollRequestFails(l)
    \/ BackoffElapsed(l)

\* ------------------------------------------------------------ the consumer
ConsumerRecv ==
    /\ rx_open
    /\ chan # <<>>
    /\ received' = Append(received, Head(chan))
    /\ chan' = Tail(chan)
    /\ UNCHANGED <<rx_open, monitorVars, loopVars, histVars>>
    /\ UNCHANGED envVars

\* The receiver is dropped: queued events are lost, later sends fail.
ConsumerCloses ==
    /\ rx_open
    /\ rx_open' = FALSE
    /\ chan' = <<>>
    /\ UNCHANGED <<received, monitorVars, loopVars, histVars>>
    /\ UNCHANGED envVars

\* --------------------------------------------------------- specifications
\* The monitor of a caller that starts it at most once, with the game client
\* coming and going: every step of the one orchestration loop.
Next ==
    \/ start_once
    \/ stop
    \/ drop
    \/ LoopTop(1)
    \/ ConnectFails(1)
    \/ ConnectSucceeds(1)
    \/ \E phase \in ObservedPhases : WsEvent(1, phase)
    \/ WsClosed(1)
    \/ WsShutdown(1)
    \/ SendPhase(1)
    \/ SendStage(1)
    \/ PollDiscoverOk(1)
    \/ PollDiscoverFails(1)
    \/ PollShutdown(1)
    \/ \E phase \in ObservedPhases : PollResponse(1, phase)
    \/ PollRequestFails(1)
    \/ BackoffElapsed(1)
    \/ ConsumerRecv
    \/ ConsumerCloses

Spec == Init /\ [][Next]_vars

\* The monitor of a caller that starts, stops, restarts and drops it at will
\* while the game client is not running: every loop finds no credential file.
NextLifecycle ==
    \/ start
    \/ stop
    \/ drop
    \/ \E l \in Loops : LoopTop(l)
    \/ \E l \in Loops : ConnectFails(l)
    \/ \E l \in Loops : PollDiscoverFails(l)
    \/ \E l \in Loops : PollShutdown(l)
    \/ \E l \in Loops : BackoffElapsed(l)

SpecLifecycle == Init /\ [][NextLifecycle]_vars

TypeOK ==
    /\ shutdown_tx \in 0..MaxLoops
    /\ spawned \in 0..MaxLoops
    /\ \A l \in Loops :
        /\ pc[l] \in {"unspawned", "top", "connect", "ws_wait", "send_phase",
                      "send_stage", "poll_wait", "poll_req", "backoff", "done"}
        /\ last_phase[l] \in GameflowPhase
        /\ last_layout[l] \in TargetLayout
        /\ mode[l] \in {"WebSocket", "Polling"}
        /\ reconnect_delay[l] \in MinDelaySecs..MaxDelaySecs
        /\ consecutive_failures[l] \in 0..(MaxFailures + 1)
        /\ shutdown_rx[l] \in {"empty", "message", "closed"}
        /\ ret[l] \in {"-", "ws", "poll_ok", "poll_err"}
    /\ Len(chan) <= ChanCap
    /\ \A l \in Loops : slept[l] \in BOOLEAN

\* The scheduling the runtime gives the one loop of Spec: a ready task is
\* polled, timers fire, a select with several ready branches picks at random
\* (so a branch that is ready again and again is eventually taken), and the
\* consumer drains the channel or closes it.  The completion of network I/O
\* (the push connect, the phase request) is the peer's doing and is not
\* bounded by the code: no fairness is given to it.
Fairness ==
    /\ WF_vars(LoopTop(1))
    /\ WF_vars(SendPhase(1))
    /\ WF_vars(SendStage(1))
    /\ WF_vars(BackoffElapsed(1))
    /\ WF_vars(PollDiscoverOk(1) \/ PollDiscoverFails(1))
    /\ SF_vars(WsShutdown(1))
    /\ SF_vars(PollShutdown(1))
    /\ WF_vars(ConsumerRecv \/ ConsumerCloses)

FairSpec == Init /\ [][Next]_vars /\ Fairness

\* The monitor against a client whose push endpoint refuses every connect while
\* its credential file is in place and its request endpoint answers every
\* request, with a consumer that keeps receiving.  The caller may stop the
\* monitor at any time.
NextPolling ==
    \/ start_once
    \/ stop
    \/ LoopTop(1)
    \/ ConnectFails(1)
    \/ PollDiscoverOk(1)
    \/ PollShutdown(1)
    \/ \E phase \in ObservedPhases : PollResponse(1, phase)
    \/ SendPhase(1)
    \/ SendStage(1)
    \/ ConsumerRecv

\* In that environment every step of the loop is taken once it is due: the
\* runtime polls the ready task, the poll timer fires, the refused connect and
\* the answered request complete, and the consumer receives.  A ready shutdown
\* branch of the polling select is taken if it is ready again and again.
PollingFairness ==
    /\ WF_vars(LoopTop(1))
    /\ WF_vars(ConnectFails(1))
    /\ WF_vars(PollDiscoverOk(1))
    /\ SF_vars(PollShutdown(1))
    /\ WF_vars(\E phase \in ObservedPhases : PollResponse(1, phase))
    /\ WF_vars(SendPhase(1))
    /\ WF_vars(SendStage(1))
    /\ WF_vars(ConsumerRecv)

PollingSpec == Init /\ [][NextPolling]_vars /\ PollingFairness

\* ------------------------------------- the loop against a client's files
\* The credential files the game client is made to leave behind: two of
\* running clients on different ports, and one cut short after four fields.
LockfileSamples ==
    {Lockfile("52437"), Lockfile("60001"), <<"LeagueClient", "4321", "52437", "secret">>}

\* The game client (re)starts and writes its credential file.
ClientStarts(parts) ==
    /\ lockfile # parts
    /\ lockfile' = parts
    /\ UNCHANGED <<conn, monitorVars, loopVars, chanVars, histVars, wsVars, callVars, appVars>>

\* The game client exits and its credential file is removed.
ClientExits ==
    /\ lockfile # NoLockfile
    /\ lockfile' = NoLockfile
    /\ UNCHANGED <<conn, monitorVars, loopVars, chanVars, histVars, wsVars, callVars, appVars>>

\* Top of `loop` with the first, synchronous part of LcuWebSocket::connect():
\* the shutdown check, then `LcuConnection::from_lockfile()?`; on Ok the
\* handshake with the discovered port is in flight.
Connect(l) ==
    IF shutdown_rx[l] = "message" THEN LoopTop(l)
    ELSE LET connection == from_lockfile(lockfile) IN
         IF connection.ok
         THEN /\ pc[l] = "top"
              /\ conn' = connection.v
              /\ Upd(l, [Cur(l) EXCEPT !.pc = "connect"])
              /\ UNCHANGED <<lockfile, monitorVars, chanVars, histVars, wsVars, callVars, appVars>>
         ELSE /\ pc[l] = "top"
              /\ Upd(l, AfterWebsocketErr(Cur(l)))
              /\ UNCHANGED <<monitorVars, chanVars, histVars, envVars>>

\* An event the push session hands to the wait-loop without a phase in it.
Ignored(event) == ~parse_gameflow_event(event).some

\* select, `event = ws.recv()` with Some(event): the handler runs if
\* parse_gameflow_event finds a phase, else the wait-loop goes round.
WsRecv(l, event) ==
    LET phase == parse_gameflow_event(event) IN
    IF phase.some
    THEN WsEvent(l, phase.v)
    ELSE /\ pc[l] = "ws_wait"
         /\ UNCHANGED vars

\* select, sleep(poll_interval) elapsed: LcuClient::new() reads the credential
\* file; on Ok the request to the discovered port is in flight, on Err the
\* discovery-failure arm runs.
PollTick(l) ==
    LET client == from_lockfile(lockfile) IN
    IF client.ok
    THEN /\ pc[l] = "poll_wait"
         /\ conn' = client.v
         /\ Upd(l, [Cur(l) EXCEPT !.pc = "poll_req"])
         /\ UNCHANGED <<lockfile, monitorVars, chanVars, histVars, wsVars, callVars, appVars>>
    ELSE PollDiscoverFails(l)

\* The phase request completes with `response`: get_gameflow_phase() returns.
PollHttp(l, response) ==
    LET phase == get_gameflow_phase(response) IN
    IF phase.ok THEN PollResponse(l, phase.v) ELSE PollRequestFails(l)

\* The one loop of a monitor that is started once and not stopped, against a
\* game client that starts, restarts on another port and exits at will, whose
\* push endpoint accepts or refuses the connect, sends notifications of every
\* kind and closes the session, and whose request endpoint answers with every
\* kind of response; the consumer keeps receiving.
NextIo ==
    \/ start_once
    \/ \E parts \in LockfileSamples : ClientStarts(parts)
    \/ ClientExits
    \/ Connect(1)
    \/ ConnectFails(1)
    \/ ConnectSucceeds(1)
    \/ \E event \in Events : WsRecv(1, event)
    \/ WsClosed(1)
    \/ SendPhase(1)
    \/ SendStage(1)
    \/ PollTick(1)
    \/ \E response \in Responses : PollHttp(1, response)
    \/ BackoffElapsed(1)
    \/ ConsumerRecv

IoSpec == Init /\ [][NextIo]_vars

\* ------------------------------------------------------ one LcuWebSocket
\* What `read.next().await` yields: a text frame, a close frame, any other
\* frame (ping, pong, binary), a transport error, or the end of the stream.
Message(kind, frame) == [kind |-> kind, frame |-> frame]

Text(frame) == Message("Text", frame)

TextSamples ==
    {PhaseFrame("Lobby"), PhaseFrame("InProgress"),
     Array(<<Opcode8, Name, Object(Nested, Str(GAMEFLOW_SESSION), Str("Update"))>>),
     NotJson}

Messages ==
    {Text(frame) : frame \in TextSamples}
    \cup {Message(kind, NotJson) : kind \in {"Close", "Ping", "Error", "End"}}

\* The message ends the stream: the server sends nothing after it.
Final(message) == message.kind \in {"Close", "Error", "End"}

\* connect_with succeeded: the event channel exists and the receiving task is
\* spawned.
WsConnected ==
    /\ lcu_ws = "none"
    /\ lcu_ws' = "live"
    /\ task' = Task("reading", <<>>)
    /\ UNCHANGED <<read, event_rx, taken, returned>>
    /\ UNCHANGED <<monitorVars, loopVars, chanVars, histVars, clientVars, callVars, appVars>>

\* The server sends a message, or the transport fails or ends.
ServerSends(message) ==
    /\ lcu_ws # "none"
    /\ task.at # "ended"
    /\ Len(taken) + Len(read) < MaxFrames
    /\ IF read = <<>> THEN TRUE ELSE ~Final(read[Len(read)])
    /\ read' = Append(read, message)
    /\ UNCHANGED <<lcu_ws, task, event_rx, taken, returned>>
    /\ UNCHANGED <<monitorVars, loopVars, chanVars, histVars, clientVars, callVars, appVars>>

\* Variant: try_send instead of send: with the channel full the event is
\* dropped and the task reads on.
TaskSendOrDrop(event) ==
    IF lcu_ws = "dropped"
    THEN /\ task' = Task("ended", <<>>)
         /\ UNCHANGED event_rx
    ELSE /\ task' = Task("reading", <<>>)
         /\ event_rx' = IF Len(event_rx) < EventCap
                        THEN Append(event_rx, event) ELSE event_rx

\* `event_tx.send(event).await` in the task, as far as it gets at once: an
\* error when the receiver is gone (the task breaks), the event queued when the
\* channel has room, else the task is suspended holding the event.
TaskSend(event) ==
    IF lcu_ws = "dropped"
    THEN /\ task' = Task("ended", <<>>)
         /\ UNCHANGED event_rx
    ELSE IF Len(event_rx) < EventCap
    THEN /\ task' = Task("reading", <<>>)
         /\ event_rx' = Append(event_rx, event)
    ELSE /\ task' = Task("sending", <<event>>)
         /\ UNCHANGED event_rx

\* The task's `while let Some(msg_result) = read.next().await` with one
\* message: a text frame is decoded and, if it is an event, sent on; a close
\* frame, an error and the end of the stream end the task; the rest is ignored.
TaskReads ==
    /\ task.at = "reading"
    /\ read # <<>>
    /\ read' = Tail(read)
    /\ taken' = Append(taken, Head(read))
    /\ LET message == Head(read) IN
       IF message.kind = "Text"
       THEN IF parse_event(message.frame).some
            THEN TaskSend(parse_event(message.frame).v)
            ELSE UNCHANGED <<task, event_rx>>
       ELSE IF Final(message)
       THEN /\ task' = Task("ended", <<>>)
            /\ UNCHANGED event_rx
       ELSE UNCHANGED <<task, event_rx>>
    /\ UNCHANGED <<lcu_ws, returned>>
    /\ UNCHANGED <<monitorVars, loopVars, chanVars, histVars, clientVars, callVars, appVars>>

\* The suspended send of the task completes: the channel got room, or the
\* receiver was dropped.
TaskSendResumes ==
    /\ task.at = "sending"
    /\ lcu_ws = "dropped" \/ Len(event_rx) < EventCap
    /\ TaskSend(task.held[1])
    /\ UNCHANGED <<lcu_ws, read, taken, returned>>
    /\ UNCHANGED <<monitorVars, loopVars, chanVars, histVars, clientVars, callVars, appVars>>

\* Variant: recv() reports the end as soon as the task has ended, whatever is
\* still in the buffer.
RecvEndFirst ==
    /\ lcu_ws = "live"
    /\ IF task.at = "ended"
       THEN /\ returned' = Append(returned, NoneOpt)
            /\ lcu_ws' = "dropped"
            /\ event_rx' = <<>>
       ELSE /\ event_rx # <<>>
            /\ returned' = Append(returned, Some(Head(event_rx)))
            /\ event_rx' = Tail(event_rx)
            /\ UNCHANGED lcu_ws
    /\ UNCHANGED <<read, task, taken>>
    /\ UNCHANGED <<monitorVars, loopVars, chanVars, histVars, clientVars, callVars, appVars>>

\* `ws.recv().await` of the owner resolves: the oldest buffered event, or None
\* once the buffer is empty and the sender is gone with the ended task.  On
\* None the owner returns and its LcuWebSocket is dropped.
Recv ==
    /\ lcu_ws = "live"
    /\ IF event_rx # <<>>
       THEN /\ returned' = Append(returned, Some(Head(event_rx)))
            /\ event_rx' = Tail(event_rx)
            /\ UNCHANGED lcu_ws
       ELSE /\ task.at = "ended"
            /\ returned' = Append(returned, NoneOpt)
            /\ lcu_ws' = "dropped"
            /\ UNCHANGED event_rx
    /\ UNCHANGED <<read, task, taken>>
    /\ UNCHANGED <<monitorVars, loopVars, chanVars, histVars, clientVars, callVars, appVars>>

\* The owner drops its LcuWebSocket (the wait-loop returned on shutdown): the
\* receiver and its buffer are gone; the JoinHandle is dropped, which detaches
\* the task and does not abort it.
DropWs ==
    /\ lcu_ws = "live"
    /\ lcu_ws' = "dropped"
    /\ event_rx' = <<>>
    /\ UNCHANGED <<read, task, taken, returned>>
    /\ UNCHANGED <<monitorVars, loopVars, chanVars, histVars, clientVars, callVars, appVars>>

\* Any step of the receiving task.
TaskStep == TaskReads \/ TaskSendResumes

\* One push session from the connect on: the server sends what it likes, the
\* owner receives or drops the LcuWebSocket at any time.
NextWs ==
    \/ WsConnected
    \/ \E message \in Messages : ServerSends(message)
    \/ TaskReads
    \/ TaskSendResumes
    \/ Recv
    \/ DropWs

WsSpec == Init /\ [][NextWs]_vars

\* ----------------------------------------------- the decoding functions
\* The decoding functions of the clients and of the monitor, each applied to
\* every input of its bounded input set: the run starts with the function and
\* its argument chosen, and its one step is the call.
Call(fn, arg) == [fn |-> fn, arg |-> arg]

Returned(v) == [done |-> TRUE, v |-> v]

InitDecode ==
    /\ InitMonitor
    /\ InitClient
    /\ InitWs
    /\ InitApp
    /\ \/ \E phase \in GameflowPhase :
            fn_call \in {Call("from_phase", phase), Call("is_in_game", phase),
                         Call("is_in_client", phase)}
       \/ \E s \in WireStrings : fn_call = Call("from", s)
       \/ \E frame \in Frames : fn_call = Call("parse_event", frame)
       \/ \E event \in Events : fn_call = Call("parse_gameflow_event", event)
       \/ \E response \in Responses : fn_call = Call("get_gameflow_phase", response)
       \/ \E parts \in LockfileContents : fn_call = Call("parse_lockfile_content", parts)
    /\ fn_result = NoResult

\* The pending call of function fn returns v.
Returns(fn, v) ==
    /\ fn_call.fn = fn
    /\ ~fn_result.done
    /\ fn_result' = Returned(v)
    /\ UNCHANGED <<fn_call, monitorVars, loopVars, chanVars, histVars, clientVars,
                   wsVars, appVars>>

call_from_phase == Returns("from_phase", from_phase(fn_call.arg))

call_is_in_game == Returns("is_in_game", is_in_game(fn_call.arg))

call_is_in_client == Returns("is_in_client", is_in_client(fn_call.arg))

call_from == Returns("from", GameflowPhase_from(fn_call.arg))

call_parse_event == Returns("parse_event", parse_event(fn_call.arg))

call_parse_gameflow_event ==
    Returns("parse_gameflow_event", parse_gameflow_event(fn_call.arg))

call_get_gameflow_phase ==
    Returns("get_gameflow_phase", get_gameflow_phase(fn_call.arg))

call_parse_lockfile_content ==
    Returns("parse_lockfile_content", parse_lockfile_content(fn_call.arg))

NextDecode ==
    \/ call_from_phase
    \/ call_is_in_game
    \/ call_is_in_client
    \/ call_from
    \/ call_parse_event
    \/ call_parse_gameflow_event
    \/ call_get_gameflow_phase
    \/ call_parse_lockfile_content

DecodeSpec == InitDecode /\ [][NextDecode]_vars

\* The call of function fn has returned.
Done(fn) == fn_call.fn = fn /\ fn_result.done

\* ------------------------------------------------------------- histories
RECURSIVE Dedup(_, _)
\* The phases of seq that differ from their predecessor, prev preceding the first.
Dedup(seq, prev) ==
    IF seq = <<>> THEN <<>>
    ELSE IF Head(seq) = prev THEN Dedup(Tail(seq), prev)
    ELSE <<Head(seq)>> \o Dedup(Tail(seq), Head(seq))

RECURSIVE PhasesOf(_)
PhasesOf(seq) ==
    IF seq = <<>> THEN <<>> ELSE <<Head(seq).phase>> \o PhasesOf(Tail(seq))

RECURSIVE EventsIn(_)
EventsIn(seq) ==
    IF seq = <<>> THEN <<>> ELSE <<Head(seq).ev>> \o EventsIn(Tail(seq))

FromLoop(seq, l) == SelectSeq(seq, LAMBDA x : x.loop = l)

\* Phases handed to the handler of loop l, in order.
ObservedBy(l) == PhasesOf(FromLoop(observations, l))

\* Events loop l handed to the delivery channel, in order.
EmittedBy(l) == EventsIn(FromLoop(sent, l))

\* The phases of the PhaseChanged events loop l emitted, in order.
PhaseChangesBy(l) ==
    PhasesOf(SelectSeq(EmittedBy(l), LAMBDA e : e.kind = "PhaseChanged"))

Front(seq) == SubSeq(seq, 1, Len(seq) - 1)

InHandler(l) == pc[l] \in {"send_phase", "send_stage"}

Signalled(l) == shutdown_rx[l] # "empty"

\* ------------------------------------------------------------------ C1
\* C1: over the phases handed to the phase-change handler of a loop (push and
\* poll call sites alike), the PhaseChanged events the loop emits are exactly
\* the observations that differ from the phase stored at that moment (the
\* previous observation, None at first): a repeated phase emits nothing, and
\* once the handler has returned the stored phase is the last observation.
C1_PhaseChangedIffDiffers ==
    LET obs == ObservedBy(1)
        done == IF pc[1] = "send_phase" THEN Front(obs) ELSE obs
    IN  /\ PhaseChangesBy(1) = Dedup(done, "None")
        /\ pc[1] = "send_phase" => cur_phase[1] = obs[Len(obs)] /\ cur_phase[1] # last_phase[1]
        /\ (~InHandler(1) /\ obs # <<>>) => last_phase[1] = obs[Len(obs)]
        /\ InHandler(1) => last_phase[1] = Dedup(<<"None">> \o Front(obs), "")[Len(Dedup(<<"None">> \o Front(obs), ""))]

\* Lobby observed twice in a row, one event emitted; the loop
\* is back at the top after a push session ended and a poll succeeded, so the
\* observations came from both paths.
C1_Witness ==
    /\ pc[1] = "top"
    /\ mode[1] = "WebSocket"
    /\ reconnect_delay[1] = MinDelaySecs
    /\ ObservedBy(1) = <<"Lobby", "Lobby">>
    /\ PhaseChangesBy(1) = <<"Lobby">>
    /\ last_phase[1] = "Lobby"

\* ------------------------------------------------------------------ C2
\* C2: in the events emitted by one loop, every StageChanged comes right after
\* a PhaseChanged carrying the same phase.
C2_StageFollowsItsPhase ==
    LET ev == EmittedBy(1) IN
    \A i \in 1..Len(ev) :
        ev[i].kind = "StageChanged" =>
            /\ i > 1
            /\ ev[i - 1].kind = "PhaseChanged"
            /\ ev[i - 1].phase = ev[i].phase

\* Two layout changes emitted, each behind its phase change.
C2_Witness ==
    LET ev == EmittedBy(1) IN
    /\ Len(ev) >= 4
    /\ ev[2].kind = "StageChanged"
    /\ ev[4].kind = "StageChanged"
    /\ ev[4].layout # ev[2].layout

PushActive(l) == ws_open[l]

PollActive(l) ==
    \/ pc[l] \in {"poll_wait", "poll_req"}
    \/ ret[l] \in {"poll_ok", "poll_err"}

\* C4: a loop never holds a push session while it polls, and a push session
\* exists only in the push wait-loop (the select or the handler called from it).
C4_PushXorPoll ==
    /\ ~(PushActive(1) /\ PollActive(1))
    /\ PushActive(1) => (pc[1] = "ws_wait" \/ (InHandler(1) /\ ret[1] = "ws"))
    /\ pc[1] = "connect" => ~PushActive(1) /\ ~PollActive(1)

\* A poll request in flight after a push session has ended.
C4_Witness ==
    /\ pc[1] = "poll_req"
    /\ mode[1] = "WebSocket"
    /\ last_phase[1] # "None"

\* ------------------------------------------------------------------ C5
\* C5: a start() on a running monitor spawns no loop, leaves the stored
\* shutdown sender and every loop's shutdown channel and position as they
\* are, returns Ok (recorded as start_noop), and the monitor is still running.
C5_StartWhileRunningIsNoop ==
    [][(start /\ shutdown_tx # 0) =>
          /\ spawned' = spawned
          /\ shutdown_tx' = shutdown_tx
          /\ shutdown_rx' = shutdown_rx
          /\ pc' = pc
          /\ last_call' = "start_noop"
          /\ is_running']_vars

\* start() was called on the running monitor, which still has its one loop.
C5_Witness ==
    /\ last_call = "start_noop"
    /\ is_running
    /\ spawned = 1
    /\ pc[1] \notin {"unspawned", "done"}
    /\ pc[2] = "unspawned"

\* ------------------------------------------------------------------ C6
Started == last_call \in {"start_spawned", "start_noop"}

\* C6: is_running() holds exactly when the most recent call was a start();
\* stop() or drop on a stopped monitor changes no sender, channel or loop;
\* stop() and drop on a running monitor both put the signal on the running
\* loop's channel and clear the stored sender.
C6_RunningIffStartedLast ==
    [][/\ is_running' <=> Started'
       /\ ((stop \/ drop) /\ shutdown_tx = 0) =>
              UNCHANGED <<shutdown_tx, shutdown_rx, spawned, pc>>
       /\ ((stop \/ drop) /\ shutdown_tx # 0) =>
              /\ shutdown_rx[shutdown_tx] = "empty"
              /\ shutdown_rx' = [shutdown_rx EXCEPT ![shutdown_tx] = "message"]
              /\ shutdown_tx' = 0
              /\ UNCHANGED <<spawned, pc>>]_vars

\* The monitor was started, stopped, started again and then dropped while running.
C6_Witness ==
    /\ last_call = "drop_sent"
    /\ spawned = 2
    /\ ~is_running
    /\ Signalled(1)
    /\ Signalled(2)

\* ------------------------------------------------------------------ C7
\* C7: once the shutdown signal has been sent to a loop, the loop eventually
\* terminates, from whatever state it is in.
C7_StopLeadsToTermination == Signalled(1) ~> (pc[1] = "done")

CanExit(l) == ENABLED (LoopStep(l) /\ pc'[l] = "done")

\* C9 as stated: with the signal pending, the loop can leave each of its three
\* wait points (push select, polling select, backoff sleep) straight to its end.
C9_Original ==
    (Signalled(1) /\ pc[1] \in {"ws_wait", "poll_wait", "backoff"}) => CanExit(1)

\* C9 amended: with the signal pending, the loop can leave the push select and
\* the polling select straight to its end; from the backoff sleep it cannot:
\* its only step is the sleep completing, which leads to the top-of-loop
\* check, and there every step ends the loop.
C9_Amended ==
    Signalled(1) =>
        /\ pc[1] \in {"ws_wait", "poll_wait"} => CanExit(1)
        /\ pc[1] = "backoff" =>
              /\ ~CanExit(1)
              /\ ENABLED BackoffElapsed(1)
              /\ ~ENABLED (LoopStep(1) /\ pc'[1] # "top")
        /\ pc[1] = "top" =>
              /\ CanExit(1)
              /\ ~ENABLED (LoopStep(1) /\ pc'[1] # "done")

\* The signal is pending while the loop sleeps for the backoff interval.
C9_Witness ==
    /\ Signalled(1)
    /\ pc[1] = "backoff"
    /\ reconnect_delay[1] > MinDelaySecs

\* ----------------------------------------------------------------- C10
\* C10: a loop has terminated only if the shutdown signal was sent to it and
\* taken by it; the loop whose sender the monitor still holds is running.
C10_EndsOnlyOnShutdown ==
    /\ pc[1] = "done" =>
          /\ shutdown_rx[1] = "closed"
          /\ sd_seen[1] # "none"
          /\ shutdown_tx # 1
          /\ last_call \in {"stop_sent", "stop_noop", "drop_sent", "drop_noop"}
    /\ shutdown_tx = 1 => pc[1] \notin {"unspawned", "done"}

\* Still running and not signalled after a closed push session, a failed
\* delivery (receiver closed), and enough failed polls to reach the backoff.
C10_Witness ==
    /\ shutdown_tx = 1
    /\ pc[1] = "backoff"
    /\ mode[1] = "WebSocket"
    /\ ~rx_open
    /\ Len(sent) - Len(received) > ChanCap

\* ----------------------------------------------------------------- C11
\* A polling attempt of loop l fails: discovery fails, or the request does.
PollAttemptFails(l) == PollDiscoverFails(l) \/ PollRequestFails(l)

\* C11: when the first consecutive polling attempt fails (discovery failure or
\* request failure) while the stored layout is not None, the loop hands the
\* phase None to the phase-change handler, which starts emitting
\* PhaseChanged(None).
C11_NoneOnFirstFailure ==
    [][(/\ consecutive_failures[1] = 0
        /\ last_layout[1] # "None"
        /\ PollAttemptFails(1))
          => /\ pc'[1] = "send_phase"
             /\ cur_phase'[1] = "None"]_vars

\* ----------------------------------------------------------------- C12
\* Loop l is in the polling sub-loop, about to make a polling attempt or with
\* its request in flight.
Polling(l) == pc[l] \in {"poll_wait", "poll_req"}

\* C12: the polling sub-loop makes no further attempt once more than 5
\* consecutive attempts have failed, whatever kind of failure they were: by
\* then it has returned ClientDisconnected for the backoff sleep.
C12_ExitAfterThreshold ==
    Polling(1) => consecutive_failures[1] <= FailureThreshold

\* ----------------------------------------------------------------- C13
\* The polling sub-loop of loop l returns ClientDisconnected in this step.
ReturnsClientDisconnected(l) == pc[l] # "backoff" /\ pc'[l] = "backoff"

\* C13 as stated: after the fifth consecutive failed attempt the sub-loop has
\* returned ClientDisconnected: it polls with fewer than five failures counted.
C13_Original ==
    Polling(1) => consecutive_failures[1] < FailureThreshold

\* C13 amended: five consecutive failures are not enough.  The sub-loop
\* returns ClientDisconnected only out of a discovery failure that is at least
\* the sixth consecutive failed attempt (directly, or when the handler called
\* for that failure returns); a discovery failure that is the fifth or an
\* earlier one keeps the sub-loop polling, and one that is the sixth or a later
\* one always ends it.
C13_Amended ==
    [][/\ ReturnsClientDisconnected(1) =>
             \/ /\ pc[1] = "poll_wait"
                /\ consecutive_failures[1] >= FailureThreshold
                /\ PollDiscoverFails(1)
             \/ /\ InHandler(1)
                /\ ret[1] = "poll_err"
                /\ consecutive_failures[1] > FailureThreshold
       /\ (pc[1] = "poll_wait" /\ consecutive_failures[1] < FailureThreshold
             /\ PollDiscoverFails(1)) =>
             /\ pc'[1] \in {"poll_wait", "send_phase", "done"}
             /\ consecutive_failures'[1] \in {consecutive_failures[1] + 1, 0}
       /\ (InHandler(1) /\ ret[1] = "poll_err"
             /\ consecutive_failures[1] <= FailureThreshold) =>
             pc'[1] \in {pc[1], "send_stage", "poll_wait", "done"}
       /\ (pc[1] = "poll_wait" /\ consecutive_failures[1] >= FailureThreshold
             /\ PollDiscoverFails(1)) =>
             pc'[1] \in {"backoff", "send_phase"}
       /\ (InHandler(1) /\ ret[1] = "poll_err"
             /\ consecutive_failures[1] > FailureThreshold) =>
             pc'[1] \in {pc[1], "send_stage", "backoff"}]_vars

\* Five consecutive attempts have failed and the sub-loop is still polling: the
\* sixth attempt is due, and its discovery failure is what ends the sub-loop.
C13_Witness ==
    /\ pc[1] = "poll_wait"
    /\ consecutive_failures[1] = FailureThreshold
    /\ ENABLED (PollDiscoverFails(1) /\ ReturnsClientDisconnected(1))

\* ----------------------------------------------------------------- C14
\* C14: the reconnect delay is always one of 1, 2, 4, 8, 16, 30 seconds; the
\* completion of a backoff sleep replaces it by its double capped at 30, and
\* every other step leaves it as it is or resets it to 1.  So from one sleep
\* to the next with no reset in between the sleeps run 1, 2, 4, 8, 16, 30,
\* 30, ..., and after a sleep with no success since the delay is not 1.
C14_BackoffSchedule ==
    [][/\ reconnect_delay[1] \in {1, 2, 4, 8, 16, 30}
       /\ reconnect_delay'[1] \in {1, 2, 4, 8, 16, 30}
       /\ (pc[1] = "backoff" /\ pc'[1] # "backoff") =>
             reconnect_delay'[1] = Min(2 * reconnect_delay[1], 30)
       /\ ~(pc[1] = "backoff" /\ pc'[1] # "backoff") =>
             reconnect_delay'[1] \in {reconnect_delay[1], 1}
       /\ slept'[1] => reconnect_delay'[1] \in {2, 4, 8, 16, 30}]_vars

\* The loop sleeps 30 seconds and the sleep that follows is 30 seconds again.
C14_Witness ==
    /\ pc[1] = "backoff"
    /\ slept[1]
    /\ reconnect_delay[1] = 30
    /\ ENABLED (BackoffElapsed(1) /\ reconnect_delay'[1] = 30)

\* ----------------------------------------------------------------- C15
\* C15: a backoff sleep with no earlier sleep since the latest successful call
\* (push connect or poll) lasts 1 second, however far the delay had escalated.
\* The delay variable itself is reset when the success has been dealt with
\* (the push session has ended, the polled phase has been through the
\* handler); until then the loop is in the push wait-loop or in the handler
\* and starts no sleep.
C15_FirstSleepAfterSuccess ==
    /\ (pc[1] = "backoff" /\ ~slept[1]) => reconnect_delay[1] = MinDelaySecs
    /\ ~slept[1] =>
          \/ reconnect_delay[1] = MinDelaySecs
          \/ PushActive(1)
          \/ InHandler(1) /\ ret[1] = "poll_ok"

\* A first backoff sleep after a success, of 1 second: a push session has
\* ended (mode is WebSocket) and no sleep has completed since.
C15_Witness ==
    /\ pc[1] = "backoff"
    /\ ~slept[1]
    /\ reconnect_delay[1] = MinDelaySecs
    /\ mode[1] = "WebSocket"

\* ----------------------------------------------------------------- C16
\* Step 1 of the orchestration loop: the top-of-loop check and the push
\* connect attempt.
AtStepOne(l) == pc[l] \in {"top", "connect"}

\* C16: when the push channel closes with no shutdown pending, the loop goes
\* from the wait-loop straight back to step 1 with the reconnect delay at 1
\* second: it is not put into the polling sub-loop.
C16_PushCloseReconnects ==
    [][(pc[1] = "ws_wait" /\ ~Signalled(1) /\ WsClosed(1)) =>
          /\ AtStepOne(1)'
          /\ reconnect_delay'[1] = MinDelaySecs]_vars

\* ----------------------------------------------------------------- C17
\* The latest phase handed to the handler of loop l.
LatestObserved(l) == ObservedBy(l)[Len(ObservedBy(l))]

\* C17: a successful poll hands the polled phase to the phase-change handler
\* (which is left at once when the phase is the stored one, and otherwise
\* emits for that phase); when the handler returns the loop is at the top of
\* the orchestration loop, from where its only steps are the shutdown exit and
\* the push-connect attempt: no poll and no timer wait come in between.
C17_PollSuccessUpgrades ==
    [][/\ (pc[1] = "poll_req" /\ \E phase \in ObservedPhases : PollResponse(1, phase)) =>
             /\ pc'[1] \in {"send_phase", "top"}
             /\ pc'[1] = "top" => LatestObserved(1)' = last_phase[1]
             /\ pc'[1] = "send_phase" =>
                   /\ LatestObserved(1)' # last_phase[1]
                   /\ cur_phase'[1] = LatestObserved(1)'
                   /\ ret'[1] = "poll_ok"
       /\ (InHandler(1) /\ ret[1] = "poll_ok") =>
             /\ pc'[1] \in {pc[1], "send_stage", "top"}
             /\ InHandler(1)' => (ret'[1] = "poll_ok" /\ cur_phase'[1] = cur_phase[1])
             /\ pc'[1] = "top" => last_phase'[1] = cur_phase[1]
       /\ pc[1] = "top" =>
             /\ pc'[1] \in {"top", "connect", "done"}
             /\ pc'[1] = "done" => Signalled(1)]_vars

\* The loop attempts a push connect right after a successful poll: it knows a
\* phase, the latest push connect failed (mode is Polling) and no backoff
\* sleep has come since the latest success.
C17_Witness ==
    /\ pc[1] = "connect"
    /\ mode[1] = "Polling"
    /\ ~slept[1]
    /\ last_phase[1] # "None"
    /\ LatestObserved(1) = last_phase[1]

\* ----------------------------------------------------------------- C18
\* C18: once a polling attempt has failed and been dealt with, and nothing has
\* succeeded since, the stored phase is None: if the phase reported last was
\* not None, a PhaseChanged to None has been emitted for the consumer.
C18_NoneReportedWhenUnreachable ==
    (pc[1] = "poll_wait" /\ consecutive_failures[1] >= 1) => last_phase[1] = "None"

\* ----------------------------------------------------------------- C19
\* The phases of the PhaseChanged events the consumer has received, in order.
ReceivedPhases ==
    PhasesOf(SelectSeq(received, LAMBDA e : e.kind = "PhaseChanged"))

\* The phase changes among the phases loop l has polled, in order.
Due(l) == Dedup(ObservedBy(l), "None")

\* C19: with the push connect refused every time and the request endpoint
\* answering, every phase change the loop polls is eventually received by the
\* consumer as a PhaseChanged, in polling order; while no shutdown is
\* signalled a refused connect is always followed by a poll request; and the
\* loop ends only on the shutdown signal: no failure ends it or reaches the
\* consumer, which receives PhaseChanged and StageChanged events only.
C19_PollingKeepsReporting ==
    /\ \A n \in 1..MaxObs :
          (Len(Due(1)) >= n) ~>
              (Len(ReceivedPhases) >= n /\ ReceivedPhases[n] = Due(1)[n])
    /\ (pc[1] = "connect" /\ ~Signalled(1)) ~> (pc[1] = "poll_req" \/ Signalled(1))
    /\ [](pc[1] = "done" => sd_seen[1] # "none")
    /\ [](\A i \in 1..Len(received) :
             received[i].kind \in {"PhaseChanged", "StageChanged"})

\* The consumer has received two phase changes found by polling alone (no push
\* session ever ended: mode is still Polling), and the loop polls on.
C19_Witness ==
    /\ Len(ReceivedPhases) = 2
    /\ ReceivedPhases = Due(1)
    /\ mode[1] = "Polling"
    /\ pc[1] = "poll_wait"
    /\ ~Signalled(1)

\* ----------------------------------------------------------------- C20
\* The request of a poll attempt of loop l is in flight and both of its
\* outcomes, a phase and a failure, are still possible.
RequestInFlight(l) ==
    /\ pc[l] = "poll_req"
    /\ ENABLED (\E phase \in ObservedPhases : PollResponse(l, phase))
    /\ ENABLED PollRequestFails(l)

\* C20: a poll attempt whose request is in flight always completes, with a
\* phase or with a failure, whatever the control plane does.
C20_PollAttemptCompletes == RequestInFlight(1) ~> (pc[1] # "poll_req")

\* ------------------------------------------------------------------ C21
\* C21: TargetLayout::from_phase returns GameFullscreen for InProgress,
\* Reconnect and GameStart, ClientCentered for Lobby, Matchmaking, ReadyCheck,
\* ChampSelect, WaitingForStats, PreEndOfGame and EndOfGame, and None for None,
\* FailedToLaunch, TerminatedInError and CheckedIntoTournament; no phase is
\* both in game and in client.
C21_LayoutOfPhase ==
    /\ Done("from_phase") =>
        /\ fn_call.arg \in {"InProgress", "Reconnect", "GameStart"}
            => fn_result.v = "GameFullscreen"
        /\ fn_call.arg \in {"Lobby", "Matchmaking", "ReadyCheck", "ChampSelect",
                            "WaitingForStats", "PreEndOfGame", "EndOfGame"}
            => fn_result.v = "ClientCentered"
        /\ fn_call.arg \in {"None", "FailedToLaunch", "TerminatedInError",
                            "CheckedIntoTournament"}
            => fn_result.v = "None"
    /\ (Done("is_in_game") /\ fn_result.v) => ~is_in_client(fn_call.arg)
    /\ (Done("is_in_client") /\ fn_result.v) => ~is_in_game(fn_call.arg)

\* from_phase has returned the layout of a starting game.
C21_Witness ==
    /\ Done("from_phase")
    /\ fn_call.arg = "GameStart"
    /\ fn_result.v = "GameFullscreen"

\* ------------------------------------------------------------------ C22
\* C22: decoding a wire phase string never fails: each of the fourteen phase
\* names decodes to the phase of that name and every other string decodes to
\* None.  So a gameflow-phase notification or a successful phase request that
\* carries an unknown string hands the same value on as one that carries
\* "None": Some(None) from parse_gameflow_event, Ok(None) from
\* get_gameflow_phase.
C22_UnknownDecodesToNone ==
    /\ Done("from") =>
        /\ fn_result.v \in GameflowPhase
        /\ fn_call.arg \in GameflowPhase => fn_result.v = fn_call.arg
        /\ fn_call.arg \notin GameflowPhase => fn_result.v = "None"
    /\ (/\ Done("parse_gameflow_event")
        /\ fn_call.arg.uri = GAMEFLOW_PHASE
        /\ fn_call.arg.data.t = "string"
        /\ fn_call.arg.data.s \notin GameflowPhase)
        => /\ fn_result.v = Some("None")
           /\ fn_result.v = parse_gameflow_event(LcuEvent(GAMEFLOW_PHASE, "Update", Str("None")))
    /\ (/\ Done("get_gameflow_phase")
        /\ fn_call.arg.sent
        /\ fn_call.arg.status = 200
        /\ fn_call.arg.body.present
        /\ fn_call.arg.body.t = "string"
        /\ fn_call.arg.body.s \notin GameflowPhase)
        => /\ fn_result.v = Ok("None")
           /\ fn_result.v = get_gameflow_phase(Response(200, Str("None")))

\* A gameflow-phase notification with the phase string of a future client
\* version has been decoded.
C22_Witness ==
    /\ Done("parse_gameflow_event")
    /\ fn_call.arg = LcuEvent(GAMEFLOW_PHASE, "Update", Str("Replay"))
    /\ fn_result.v = Some("None")

\* ------------------------------------------------------------------ C24
\* A frame whose first three elements are the opcode 8, a channel name and a
\* body with the resource path, the change kind and the payload.
EventShape(frame) ==
    /\ frame.json
    /\ frame.t = "array"
    /\ Len(frame.items) >= 3
    /\ frame.items[1].t = "number" /\ frame.items[1].s = "8"
    /\ frame.items[2].t = "string"
    /\ frame.items[3].t = "object"
    /\ frame.items[3].members.data.present
    /\ frame.items[3].members.uri.present /\ frame.items[3].members.uri.t = "string"
    /\ frame.items[3].members.eventType.present
    /\ frame.items[3].members.eventType.t = "string"

\* C24: parse_event yields a notification if and only if the frame is a JSON
\* array of exactly three elements [opcode, channel name, body] with opcode 8
\* and a body that contains the resource path, the change kind and the payload;
\* every other frame yields none.
C24_NotificationIffExactShape ==
    Done("parse_event") =>
        (fn_result.v.some <=> (EventShape(fn_call.arg) /\ Len(fn_call.arg.items) = 3))

\* ------------------------------------------------------------------ C23
\* A response that arrived with a status outside 200..299.
NonSuccess(response) == response.sent /\ ~is_success(response.status)

\* C23: a phase request answered with a non-success status is a successful
\* poll of phase None: the failure counter is reset, None is handed to the
\* phase-change handler, and when the handler has returned the loop is back at
\* its top (step 1), with the reconnect delay reset.
C23_NonSuccessStatusIsNone ==
    [][/\ \A response \in Responses :
            (pc[1] = "poll_req" /\ NonSuccess(response) /\ PollHttp(1, response))
            => /\ consecutive_failures'[1] = 0
               /\ observations' = Append(observations, [loop |-> 1, phase |-> "None"])
               /\ IF last_phase[1] = "None"
                  THEN pc'[1] = "top" /\ reconnect_delay'[1] = MinDelaySecs
                  ELSE /\ pc'[1] = "send_phase"
                       /\ cur_phase'[1] = "None"
                       /\ ret'[1] = "poll_ok"
       /\ (InHandler(1) /\ ret[1] = "poll_ok" /\ ~InHandler(1)')
            => /\ pc'[1] = "top"
               /\ consecutive_failures'[1] = 0
               /\ reconnect_delay'[1] = MinDelaySecs]_vars

\* A request is in flight after a failed one, the stored phase is Lobby, and
\* a 404 answer would hand None to the handler and reset the counter.
C23_Witness ==
    /\ pc[1] = "poll_req"
    /\ consecutive_failures[1] = 1
    /\ last_phase[1] = "Lobby"
    /\ ENABLED (/\ PollHttp(1, Response(404, Nested))
                /\ pc'[1] = "send_phase"
                /\ cur_phase'[1] = "None"
                /\ consecutive_failures'[1] = 0)

\* ------------------------------------------------------------------ C27
\* A credential file with fewer than five colon-delimited fields.
Malformed(file) == file # NoLockfile /\ Len(file) < 5

\* C27: while the credential file has fewer than five fields no step
\* constructs connection info, and discovery fails like any failed attempt: a
\* push connect falls through to polling without a handshake, and a poll tick
\* runs the discovery-failure arm (the failure is counted, None is handed to
\* the handler if a layout is stored, the sub-loop goes on or backs off past
\* the threshold) without a request.
C27_ShortLockfileFailsDiscovery ==
    [][Malformed(lockfile) =>
        /\ conn' = conn
        /\ (pc[1] = "top" /\ shutdown_rx[1] = "empty" /\ Connect(1))
            => /\ pc'[1] = "poll_wait"
               /\ mode'[1] = "Polling"
               /\ ~ws_open'[1]
        /\ (pc[1] = "poll_wait" /\ PollTick(1))
            => \/ /\ pc'[1] = "poll_wait"
                  /\ consecutive_failures'[1] = consecutive_failures[1] + 1
                  /\ ~TooManyFailures(consecutive_failures'[1])
               \/ /\ pc'[1] = "send_phase"
                  /\ cur_phase'[1] = "None"
                  /\ ret'[1] = "poll_err"
                  /\ last_layout[1] # "None"
                  /\ consecutive_failures'[1] = consecutive_failures[1] + 1
               \/ /\ pc'[1] = "backoff"
                  /\ TooManyFailures(consecutive_failures[1] + 1)]_vars

\* A poll tick is due for the third time in a row on a credential file of four
\* fields, no connection info has ever been constructed, and the tick counts
\* one more failure.
C27_Witness ==
    /\ Len(lockfile) = 4
    /\ conn = NoConnection
    /\ pc[1] = "poll_wait"
    /\ consecutive_failures[1] = 2
    /\ ENABLED (PollTick(1) /\ consecutive_failures'[1] = 3)

\* ------------------------------------------------------------------ C29
\* Loop l starts an attempt: a push connect or a phase request goes out.
AttemptStarts(l) ==
    \/ pc[l] = "top" /\ pc'[l] = "connect"
    \/ pc[l] = "poll_wait" /\ pc'[l] = "poll_req"

\* C29: every push-connect attempt and every polling attempt starts by reading
\* the credential file as it is then: the attempt goes out only if the file is
\* there and parses, and to the port, token and protocol of that content,
\* whatever an earlier attempt read; connection info changes at no other step.
C29_EveryAttemptRediscovers ==
    [][/\ AttemptStarts(1)
            => /\ lockfile # NoLockfile
               /\ parse_lockfile_content(lockfile).ok
               /\ conn' = parse_lockfile_content(lockfile).v
               /\ conn'.port = parse_u16(lockfile[3]).v
       /\ ~AttemptStarts(1) => conn' = conn]_vars

\* The last attempt went to port 52437, the client has restarted on port
\* 60001, and the poll tick that is due sends its request to port 60001.
C29_Witness ==
    /\ conn.port = 52437
    /\ lockfile = Lockfile("60001")
    /\ pc[1] = "poll_wait"
    /\ ENABLED (PollTick(1) /\ pc'[1] = "poll_req" /\ conn'.port = 60001)

\* ------------------------------------------------------------------ C30
\* A notification of the gameflow-phase resource with a string payload.
PhaseNotification(event) == event.uri = GAMEFLOW_PHASE /\ event.data.t = "string"

\* C30: in the push wait-loop a notification of another resource, or one whose
\* payload is not a string, changes nothing: the stored phase and layout stay,
\* no event is emitted, nothing reaches the handler and the loop waits on.  A
\* gameflow-phase notification with a string payload hands the phase of that
\* string to the handler.
C30_OtherNotificationsIgnored ==
    pc[1] = "ws_wait" =>
        \A event \in Events :
            /\ ~PhaseNotification(event)
                => ~ENABLED (/\ WsRecv(1, event)
                             /\ <<last_phase, last_layout, sent, chan, observations, pc>>'
                                    # <<last_phase, last_layout, sent, chan, observations, pc>>)
            /\ (PhaseNotification(event) /\ Len(observations) < MaxObs)
                => ENABLED (/\ WsRecv(1, event)
                            /\ observations' = Append(observations,
                                    [loop |-> 1, phase |-> GameflowPhase_from(event.data.s)]))

\* The loop waits in a push session with InProgress stored, and a notification
\* of the session resource with payload "Lobby" can arrive and changes nothing.
C30_Witness ==
    /\ pc[1] = "ws_wait"
    /\ last_phase[1] = "InProgress"
    /\ last_layout[1] = "GameFullscreen"
    /\ ENABLED (/\ WsRecv(1, LcuEvent(GAMEFLOW_SESSION, "Create", Str("Lobby")))
                /\ UNCHANGED vars)

\* ------------------------------------------------------------------ C28
\* The PhaseChanged events handed to the delivery channel so far.
PhaseChangedSent ==
    {sent[i].ev : i \in {j \in 1..Len(sent) : sent[j].ev.kind = "PhaseChanged"}}

\* C28: every PhaseChanged event carries the old phase and the new phase,
\* and the display name and the in-game and in-client predicates of the new
\* phase.
C28_PhaseChangedCarriesOldAndNew ==
    \A e \in PhaseChangedSent :
        /\ e.phase \in GameflowPhase
        /\ e.display_name = display_name(e.phase)
        /\ e.is_in_game = is_in_game(e.phase)
        /\ e.is_in_client = is_in_client(e.phase)
        /\ "old_phase" \in DOMAIN e

\* ------------------------------------------------------------------ C25
RECURSIVE DecodedFrom(_)
\* The notifications the task decoded from the messages it took, in order.
DecodedFrom(messages) ==
    IF messages = <<>> THEN <<>>
    ELSE (IF Head(messages).kind = "Text" /\ parse_event(Head(messages).frame).some
          THEN <<parse_event(Head(messages).frame).v>>
          ELSE <<>>) \o DecodedFrom(Tail(messages))

RECURSIVE ValuesOf(_)
\* The notifications among the values recv() returned, in order.
ValuesOf(options) ==
    IF options = <<>> THEN <<>>
    ELSE (IF Head(options).some THEN <<Head(options).v>> ELSE <<>>)
         \o ValuesOf(Tail(options))

\* C25: a close frame, a transport error or the end of the stream is the last
\* message the receiving task takes: the task ends with it.  recv() returns
\* the decoded notifications in the order of their arrival, and returns None
\* only once, after the task has ended and every notification decoded before
\* has been returned; with the task ended and the owner still there, recv()
\* resolves, and with None once the buffer is empty.
C25_NoneAfterEveryNotification ==
    /\ \A i \in 1..Len(taken) :
        Final(taken[i]) => i = Len(taken) /\ task.at = "ended"
    /\ \A i \in 1..Len(returned) :
        IF returned[i].some
        THEN /\ i <= Len(DecodedFrom(taken))
             /\ returned[i].v = DecodedFrom(taken)[i]
        ELSE /\ i = Len(returned)
             /\ task.at = "ended"
             /\ ValuesOf(returned) = DecodedFrom(taken)
    /\ (task.at = "ended" /\ lcu_ws = "live")
        => /\ ENABLED Recv
           /\ event_rx = <<>> => ENABLED (Recv /\ returned' = Append(returned, NoneOpt))

\* Two notifications and a close frame arrived; recv() returned the two, then
\* None.
C25_Witness ==
    /\ Len(taken) = 3
    /\ taken[3].kind = "Close"
    /\ Len(returned) = 3
    /\ returned[1].some /\ returned[2].some /\ ~returned[3].some
    /\ returned[1].v # returned[2].v

\* ------------------------------------------------------------------ C26
\* C26: once the owner of an LcuWebSocket is gone, the receiving task is on
\* its way out whatever the server does: as long as it has not ended it has a
\* step of its own to take, also when no message of the server is in flight.
C26_TaskEndsWhenConsumerGone ==
    (lcu_ws = "dropped" /\ task.at # "ended") => ENABLED TaskStep

\* ------------------------------------------------------------------ C31
\* The notifications recv() has not returned yet: those in the buffer of the
\* event channel, then the one the suspended task holds.
Undelivered == event_rx \o task.held

C32_StoredLayoutIsLayoutOfStoredPhase ==
    \A l \in Loops :
        /\ pc[l] = "unspawned" => last_phase[l] = "None" /\ last_layout[l] = "None"
        /\ ~InHandler(l) => last_layout[l] = from_phase(last_phase[l])

\* The handler ran twice and returned: for Lobby it stored a new layout, for
\* ChampSelect it stored the phase and left the layout as it was.
C32_Witness ==
    /\ ObservedBy(1) = <<"Lobby", "ChampSelect">>
    /\ ~InHandler(1)
    /\ last_phase[1] = "ChampSelect"
    /\ last_layout[1] = "ClientCentered"

\* ------------------------------------------------------------------ C33
\* The StageChanged events among a sequence of events, in order.
StagesIn(events) == SelectSeq(events, LAMBDA e : e.kind = "StageChanged")

\* The phase reported before the i-th event of a sequence: the phase of the
\* latest PhaseChanged before it, None if there is none.
PhaseBefore(events, i) ==
    LET before == {j \in 1..(i - 1) : events[j].kind = "PhaseChanged"} IN
    IF before = {} THEN "None"
    ELSE events[CHOOSE j \in before : \A k \in before : k <= j].phase

\* C33: in the events emitted by one loop, two consecutive StageChanged
\* events carry different layouts and the first one does not carry "none";
\* a PhaseChanged for a phase whose layout is the layout of the phase
\* reported before it is not followed by a StageChanged.
C33_StageChangedOnlyOnNewLayout ==
    LET ev == EmittedBy(1)
        stages == StagesIn(ev) IN
    /\ \A i \in 1..(Len(stages) - 1) : stages[i].layout # stages[i + 1].layout
    /\ stages # <<>> => stages[1].layout # "none"
    /\ \A i \in 1..Len(ev) :
        (/\ ev[i].kind = "PhaseChanged"
         /\ from_phase(ev[i].phase) = from_phase(PhaseBefore(ev, i))
         /\ i < Len(ev))
            => ev[i + 1].kind = "PhaseChanged"

\* Lobby was reported with its layout, then ChampSelect with no layout
\* change, and the handler has returned.
C33_Witness ==
    /\ EmittedBy(1) = <<PhaseChanged("Lobby"), StageChanged("ClientCentered", "Lobby"),
                        PhaseChanged("ChampSelect")>>
    /\ EmittedBy(1)[2].layout = "client_centered"
    /\ last_phase[1] = "ChampSelect"
    /\ ~InHandler(1)

\* ------------------------------------- the monitor restarted by its caller
\* The phases of a client that is running while the monitor is restarted.
ClientPhases == {"Lobby", "InProgress"}

\* The monitor of a caller that stops and restarts it, every start() with a
\* clone of the same sender, against a running client whose push endpoint
\* refuses the connect and whose request endpoint answers, with a consumer
\* that keeps receiving.
NextRestart ==
    \/ start
    \/ stop
    \/ \E l \in Loops : LoopTop(l)
    \/ \E l \in Loops : ConnectFails(l)
    \/ \E l \in Loops : PollDiscoverOk(l)
    \/ \E l \in Loops : PollShutdown(l)
    \/ \E l \in Loops : \E phase \in ClientPhases : PollResponse(l, phase)
    \/ \E l \in Loops : SendPhase(l)
    \/ \E l \in Loops : SendStage(l)
    \/ ConsumerRecv

RestartSpec == Init /\ [][NextRestart]_vars

\* ------------------------------------------------------------------ C34
\* C34: no two consecutive PhaseChanged events the consumer receives carry
\* the same phase, also when the monitor was stopped and started again
\* between them.
C34_NoRepeatAcrossRestart ==
    \A i \in 1..(Len(ReceivedPhases) - 1) : ReceivedPhases[i] # ReceivedPhases[i + 1]

\* ------------------------------------------------------------------ C35
\* Loop l has been spawned and has not returned.
Live(l) == pc[l] \notin {"unspawned", "done"}

\* C35: at most one loop spawned by the monitor is live at any time.
C35_AtMostOneLiveLoop == Cardinality({l \in Loops : Live(l)}) <= 1

\* ------------------------------------------------------------------ C36
\* C36: once stop() has put the shutdown signal on the loop's channel and
\* returned, the loop hands no further event to the delivery channel.
C36_NoEventAfterStop == [][Signalled(1) => sent' = sent]_vars

\* -------------------------------------------------- one LeagueIntegration
\* Bound on the number of calls made on the integration and on the poller.
MaxCalls == 3

\* Largest event id the Live Client API reports.
MaxEventId == 2

\* GameEvent::new(name, 0.0, data): the events get_status pushes, with the
\* "from" and "to" members of a PhaseChanged.
GameEvent(name, from, to) == [name |-> name, from |-> from, to |-> to]

ClientConnected == GameEvent("ClientConnected", NoneOpt, NoneOpt)

ClientDisconnected == GameEvent("ClientDisconnected", NoneOpt, NoneOpt)

\* LeagueIntegration::new(): live_client is LiveClientApi::new().ok().
LeagueIntegration(live_client) ==
    [constructed |-> TRUE, live_client |-> live_client,
     connection_status |-> "Disconnected", prev_connection_status |-> "Disconnected",
     current_phase |-> NoneOpt, prev_phase |-> NoneOpt, is_in_game |-> FALSE,
     pending_events |-> <<>>, last_event_id |-> -1]

\* IntegrationStatus { connected, connection_status, game_phase, is_in_game }
IntegrationStatus(s) ==
    [returned |-> TRUE,
     connected |-> s.connection_status # "Disconnected",
     connection_status |-> s.connection_status,
     game_phase |-> s.current_phase,
     is_in_game |-> s.is_in_game]

\* Variant: ClientConnected is pushed whenever the client is found.
BecameConnectedAlways(s) == TRUE

\* `self.prev_connection_status == Disconnected && new_status != Disconnected`
\* with new_status = Connected.
BecameConnected(s) ==
    s.prev_connection_status = "Disconnected" /\ "Connected" # "Disconnected"

\* `self.prev_connection_status != Disconnected
\*  && self.connection_status != Disconnected`
BecameDisconnected(s) ==
    s.prev_connection_status # "Disconnected" /\ s.connection_status # "Disconnected"

Push(s, event) == [s EXCEPT !.pending_events = Append(@, event)]

\* get_status, the `Ok(phase) =>` arm.
PhaseKnown(s, phase) ==
    LET new_phase == Some(display_name(phase))
        s1 == IF s.prev_phase # new_phase
              THEN [Push(s, GameEvent("PhaseChanged", s.prev_phase, new_phase))
                        EXCEPT !.prev_phase = new_phase]
              ELSE s
        s2 == [s1 EXCEPT !.current_phase = new_phase, !.is_in_game = is_in_game(phase)] IN
    IF is_in_game(phase) THEN [s2 EXCEPT !.connection_status = "InGame"] ELSE s2

\* The body of get_status on the fields s, with the credential file as it is
\* and the response the phase request gets: the fields when it returns.
get_status_body(s, file, response) ==
    LET s3 ==
        IF from_lockfile(file).ok
        THEN LET s1 == IF BecameConnected(s) THEN Push(s, ClientConnected) ELSE s
                 s2 == [s1 EXCEPT !.connection_status = "Connected"]
                 phase == get_gameflow_phase(response) IN
             IF phase.ok THEN PhaseKnown(s2, phase.v) ELSE s2
        ELSE LET s1 == IF BecameDisconnected(s) THEN Push(s, ClientDisconnected) ELSE s IN
             [s1 EXCEPT !.connection_status = "Disconnected", !.current_phase = NoneOpt,
                        !.prev_phase = NoneOpt, !.is_in_game = FALSE]
    IN [s3 EXCEPT !.prev_connection_status = s3.connection_status]

\* The events a call pushed: what pending_events gained.
Pushed(before, after) ==
    SubSeq(after.pending_events, Len(before.pending_events) + 1, Len(after.pending_events))

\* Variant: only an event with the id processed last is skipped.
AlreadyProcessedOnlyLatest(event_id, last) == event_id = last

\* `if event.event_id <= self.last_event_id { continue; }`
AlreadyProcessed(event_id, last) == event_id <= last

RECURSIVE NewEvents(_, _)
\* `for event in game_events.events`: the ids of the events that are not
\* skipped, last being last_event_id when the loop starts.
NewEvents(events, last) ==
    IF events = <<>> THEN <<>>
    ELSE IF AlreadyProcessed(Head(events), last) THEN NewEvents(Tail(events), last)
    ELSE <<Head(events)>> \o NewEvents(Tail(events), Head(events))

\* last_event_id after that loop.
LastAfter(events, last) ==
    LET new == NewEvents(events, last) IN
    IF new = <<>> THEN last ELSE new[Len(new)]

\* The ids of the events of a game.
EventIds == 0..MaxEventId

\* The lists in the runs: no event, one event, two events in any order.
EventLists ==
    {<<>>} \cup {<<a>> : a \in EventIds} \cup {<<a, b>> : a, b \in EventIds}

NoEvents == Err("RequestFailed")

\* A call is made on the integration or on the poller.
Called ==
    /\ calls < MaxCalls
    /\ calls' = calls + 1

\* LeagueIntegration::new()
LeagueIntegration_new(live_client) ==
    /\ ~integration.constructed
    /\ integration' = LeagueIntegration(live_client)
    /\ UNCHANGED <<status, queued, forwarded, calls>>
    /\ UNCHANGED <<monitorVars, loopVars, chanVars, histVars, clientVars, wsVars,
                   callVars, pollerVars, liveVars>>

\* get_status() from its call to its return.
get_status(response) ==
    /\ integration.constructed
    /\ Called
    /\ LET s == get_status_body(integration, lockfile, response) IN
       /\ integration' = s
       /\ status' = IntegrationStatus(s)
       /\ queued' = queued \o Pushed(integration, s)
    /\ UNCHANGED forwarded
    /\ UNCHANGED <<monitorVars, loopVars, chanVars, histVars, clientVars, wsVars,
                   callVars, pollerVars, liveVars>>

\* LeagueIntegration::poll_events() from its call to its return: get_status,
\* the pending events are taken, and with a live client the events of
\* get_events() that are not skipped follow them.  The events carry the
\* involvement of the active player, which does not bear on which events
\* are forwarded and is left out.
poll_events(response, events) ==
    /\ integration.constructed
    /\ Called
    /\ LET s == get_status_body(integration, lockfile, response)
           polled == s.live_client /\ events.ok
           last == IF polled THEN LastAfter(events.v, s.last_event_id)
                   ELSE s.last_event_id IN
       /\ integration' = [s EXCEPT !.pending_events = <<>>, !.last_event_id = last]
       /\ status' = IntegrationStatus(s)
       /\ queued' = queued \o Pushed(integration, s)
       /\ forwarded' = IF polled THEN forwarded \o NewEvents(events.v, s.last_event_id)
                       ELSE forwarded
    /\ UNCHANGED <<monitorVars, loopVars, chanVars, histVars, clientVars, wsVars,
                   callVars, pollerVars, liveVars>>

\* session_start(): `self.last_event_id = -1; self.is_in_game = true;`; what
\* follows sets the player name, the rank and the game mode context only.
session_start ==
    /\ integration.constructed
    /\ Called
    /\ integration' = [integration EXCEPT !.last_event_id = -1, !.is_in_game = TRUE]
    /\ forwarded' = <<>>
    /\ UNCHANGED <<status, queued>>
    /\ UNCHANGED <<monitorVars, loopVars, chanVars, histVars, clientVars, wsVars,
                   callVars, pollerVars, liveVars>>

\* ------------------------------------------------------------ one GamePoller
\* GamePoller::poll_events: get_events()? and get_active_player()? return
\* early on an error; else the events that are not skipped are sent.
GamePoller_poll_events(events, active_player) ==
    /\ Called
    /\ IF events.ok /\ active_player
       THEN /\ poller_last_event_id' = LastAfter(events.v, poller_last_event_id)
            /\ broadcast' = broadcast \o NewEvents(events.v, poller_last_event_id)
       ELSE UNCHANGED <<poller_last_event_id, broadcast>>
    /\ UNCHANGED <<integration, status, queued, forwarded>>
    /\ UNCHANGED <<monitorVars, loopVars, chanVars, histVars, clientVars, wsVars,
                   callVars, liveVars>>

\* GamePoller::reset
GamePoller_reset ==
    /\ Called
    /\ poller_last_event_id' = -1
    /\ broadcast' = <<>>
    /\ UNCHANGED <<integration, status, queued, forwarded>>
    /\ UNCHANGED <<monitorVars, loopVars, chanVars, histVars, clientVars, wsVars,
                   callVars, liveVars>>


\* The answers to the phase request in the runs of the integration: none, a
\* client in the lobby, and a client in a game.
StatusResponses ==
    {NoResponse, Response(200, Str("Lobby")), Response(200, Str("InProgress"))}

\* The credential files in the runs: one of a running client, one cut short.
StatusLockfiles == {Lockfile("52437"), <<"LeagueClient", "4321", "52437", "secret">>}

\* What get_events() yields in the runs: Err, or the list of the game's
\* events, given by their ids.
EventResults == {Ok(events) : events \in EventLists} \cup {NoEvents}

\* The integration and the poller of a daemon whose host calls get_status,
\* poll_events, session_start, and the poller's poll_events and reset in any
\* order while the game client comes and goes.
NextIntegration ==
    \/ \E live_client \in BOOLEAN : LeagueIntegration_new(live_client)
    \/ \E parts \in StatusLockfiles : ClientStarts(parts)
    \/ ClientExits
    \/ \E response \in StatusResponses : get_status(response)
    \/ \E response \in StatusResponses : \E events \in EventResults :
          poll_events(response, events)
    \/ session_start
    \/ \E events \in EventResults : \E active_player \in BOOLEAN :
          GamePoller_poll_events(events, active_player)
    \/ GamePoller_reset

IntegrationSpec == Init /\ [][NextIntegration]_vars

\* ------------------------------------------------------------------ C37
\* The ClientConnected and ClientDisconnected events get_status pushed, in order.
ConnectionEvents ==
    SelectSeq(queued, LAMBDA e : e.name \in {"ClientConnected", "ClientDisconnected"})

\* C37: the ClientConnected and ClientDisconnected events pushed by get_status
\* alternate, the first being a ClientConnected; when a call has returned,
\* prev_connection_status equals connection_status, and the status it
\* returned has connected set exactly if its connection status is not
\* Disconnected, which is the connection status stored.
C37_ConnectionEventsAlternate ==
    integration.constructed =>
        /\ \A i \in 1..Len(ConnectionEvents) :
            ConnectionEvents[i].name =
                IF i % 2 = 1 THEN "ClientConnected" ELSE "ClientDisconnected"
        /\ integration.prev_connection_status = integration.connection_status
        /\ status.returned =>
            /\ status.connected <=> status.connection_status # "Disconnected"
            /\ status.connection_status = integration.connection_status

\* The client was found, lost and found again in a game by three calls.
C37_Witness ==
    /\ integration.constructed
    /\ Len(ConnectionEvents) = 3
    /\ status.returned
    /\ status.connected
    /\ status.connection_status = "InGame"

\* ------------------------------------------------------------------ C38
\* The ids of a sequence are strictly increasing.
Increasing(ids) == \A i \in 1..(Len(ids) - 1) : ids[i] < ids[i + 1]

\* The latest id of a sequence, -1 if it is empty.
LatestOf(ids) == IF ids = <<>> THEN -1 ELSE ids[Len(ids)]

\* Sequence a is a prefix of sequence b.
IsPrefix(a, b) == Len(a) <= Len(b) /\ SubSeq(b, 1, Len(a)) = a

\* C38: after every step the ids of the in-game events forwarded since the
\* latest reset are strictly increasing and the stored last event id is the
\* latest of them (-1 if there is none), for the integration and for the
\* poller alike; a step other than session_start (reset for the poller) only
\* adds to the forwarded ids and does not lower the stored last event id.
C38_EventIdsIncrease ==
    [][/\ Increasing(forwarded') /\ Increasing(broadcast')
       /\ integration'.constructed => integration'.last_event_id = LatestOf(forwarded')
       /\ poller_last_event_id' = LatestOf(broadcast')
       /\ integration.constructed =>
            \/ session_start
            \/ /\ IsPrefix(forwarded, forwarded')
               /\ integration'.last_event_id >= integration.last_event_id
       /\ \/ GamePoller_reset
          \/ /\ IsPrefix(broadcast, broadcast')
             /\ poller_last_event_id' >= poller_last_event_id]_vars

\* Two polls with overlapping lists forwarded the ids 0, 1 and 2 once each,
\* and the poller has sent an event.
C38_Witness ==
    /\ integration.constructed
    /\ forwarded = <<0, 1, 2>>
    /\ integration.last_event_id = 2
    /\ broadcast # <<>>
    /\ calls = 3

\* ------------------------------------------------- one LiveMatchService
\* Bound on the number of Update events the tasks send.
MaxUpdates == 2

\* The tasks a LiveMatchService spawns, one per start() that finds it stopped.
LiveTasks == Loops

LiveTask(at, rx) == [pc |-> at, rx |-> rx]

\* Number of tasks spawned so far.
LiveSpawned == Cardinality({t \in LiveTasks : live_task[t].pc # "unspawned"})

\* An event handed to event_tx.send by task t.
LiveMatchEvent(t, kind) == [task |-> t, kind |-> kind]

\* LiveMatchService::start: a no-op while a sender is stored; else the
\* shutdown channel is created, its sender stored and the task spawned.
LiveMatchService_start ==
    /\ IF live_shutdown_tx # 0
       THEN UNCHANGED <<live_shutdown_tx, live_task>>
       ELSE /\ LiveSpawned < MaxLoops
            /\ live_shutdown_tx' = LiveSpawned + 1
            /\ live_task' = [live_task EXCEPT ![LiveSpawned + 1] = LiveTask("init", "empty")]
    /\ UNCHANGED live_events
    /\ UNCHANGED <<monitorVars, loopVars, chanVars, histVars, clientVars, wsVars,
                   callVars, integrationVars, pollerVars>>

\* LiveMatchService::stop: the sender is taken, `tx.send(()).await` queues the
\* message (the channel has capacity 1 and no other message) or fails if the
\* task is gone, and the sender is dropped.
LiveMatchService_stop ==
    /\ IF live_shutdown_tx # 0
       THEN /\ live_task' = [live_task EXCEPT ![live_shutdown_tx].rx = "message"]
            /\ live_shutdown_tx' = 0
       ELSE UNCHANGED <<live_shutdown_tx, live_task>>
    /\ UNCHANGED live_events
    /\ UNCHANGED <<monitorVars, loopVars, chanVars, histVars, clientVars, wsVars,
                   callVars, integrationVars, pollerVars>>

\* A running LiveMatchService is dropped (it has no Drop impl): the stored
\* sender is dropped with it unsent, which closes the task's shutdown channel.
\* The host goes on with a service from LiveMatchService::new().
LiveMatchService_drop ==
    /\ live_shutdown_tx # 0
    /\ live_task' = [live_task EXCEPT ![live_shutdown_tx].rx = "closed"]
    /\ live_shutdown_tx' = 0
    /\ UNCHANGED live_events
    /\ UNCHANGED <<monitorVars, loopVars, chanVars, histVars, clientVars, wsVars,
                   callVars, integrationVars, pollerVars>>

\* A step of task t that sends nothing.
LiveStep(t, from, to) ==
    /\ live_task[t].pc = from
    /\ live_task' = [live_task EXCEPT ![t].pc = to]
    /\ UNCHANGED <<live_shutdown_tx, live_events>>
    /\ UNCHANGED <<monitorVars, loopVars, chanVars, histVars, clientVars, wsVars,
                   callVars, integrationVars, pollerVars>>

\* `LiveClientApi::new()` is Ok: the interval is created and the loop entered.
LiveApiCreated(t) == LiveStep(t, "init", "select")

\* `LiveClientApi::new()` is Err: the task returns at once.
LiveApiFailed(t) == LiveStep(t, "init", "failed")

\* select, `_ = shutdown_rx.recv()` resolves, with the message or with None
\* for a closed channel: `break`, then the Ended send starts.
LiveShutdown(t) ==
    /\ live_task[t].rx # "empty"
    /\ LiveStep(t, "select", "send_ended")

\* select, `_ = poll_interval.tick()`: get_all_game_data() is in flight.
LiveTick(t) == LiveStep(t, "select", "polling")

\* poll_and_emit: the request failed, or the data holds no active player.
LivePollEmpty(t) == LiveStep(t, "polling", "select")

\* poll_and_emit: LiveMatch::from_game_data is Some: the Update send starts.
LivePollData(t) ==
    /\ Len(SelectSeq(live_events, LAMBDA e : e.kind = "Update")) < MaxUpdates
    /\ LiveStep(t, "polling", "send_update")

\* An `event_tx.send(..).await` of task t completes (the event is queued, or
\* the receiver is gone and the error is ignored).
LiveSend(t, from, kind, to) ==
    /\ live_task[t].pc = from
    /\ live_task' = [live_task EXCEPT ![t].pc = to]
    /\ live_events' = Append(live_events, LiveMatchEvent(t, kind))
    /\ UNCHANGED live_shutdown_tx
    /\ UNCHANGED <<monitorVars, loopVars, chanVars, histVars, clientVars, wsVars,
                   callVars, integrationVars, pollerVars>>

LiveSendUpdate(t) == LiveSend(t, "send_update", "Update", "select")

\* Variant: the task goes on polling after it sent Ended.
LiveSendEndedKeepsPolling(t) == LiveSend(t, "send_ended", "Ended", "select")

\* `let _ = event_tx.send(LiveMatchEvent::Ended).await;`, then the task ends.
LiveSendEnded(t) == LiveSend(t, "send_ended", "Ended", "done")

\* A LiveMatchService started, stopped and dropped at will, with the game
\* running or not.
NextLive ==
    \/ LiveMatchService_start
    \/ LiveMatchService_stop
    \/ LiveMatchService_drop
    \/ \E t \in LiveTasks : LiveApiCreated(t)
    \/ \E t \in LiveTasks : LiveApiFailed(t)
    \/ \E t \in LiveTasks : LiveShutdown(t)
    \/ \E t \in LiveTasks : LiveTick(t)
    \/ \E t \in LiveTasks : LivePollEmpty(t)
    \/ \E t \in LiveTasks : LivePollData(t)
    \/ \E t \in LiveTasks : LiveSendUpdate(t)
    \/ \E t \in LiveTasks : LiveSendEnded(t)

LiveSpec == Init /\ [][NextLive]_vars

\* ------------------------------------------------------------------ C39
\* The events task t handed to the channel, in order.
LiveEventsOf(t) == SelectSeq(live_events, LAMBDA e : e.task = t)

\* The positions in the events of task t at which it sent Ended.
EndedAt(t) == {i \in 1..Len(LiveEventsOf(t)) : LiveEventsOf(t)[i].kind = "Ended"}

\* The task of a start() has been told to end: stop() has run for it, or
\* the service was dropped.
LiveStopped(t) == live_task[t].pc # "unspawned" /\ live_shutdown_tx # t

\* The task has returned, at the end of its body or at the early return.
LiveFinished(t) == live_task[t].pc \in {"done", "failed"}

\* C39: the task of a start() sends at most one Ended and no Update after
\* it, and once stop() has run for it and the task has finished, it has
\* sent exactly one Ended.
C39_Original ==
    \A t \in LiveTasks :
        /\ Cardinality(EndedAt(t)) <= 1
        /\ \A i \in EndedAt(t) : i = Len(LiveEventsOf(t))
        /\ (live_task[t].rx = "message" /\ LiveFinished(t)) => Cardinality(EndedAt(t)) = 1

\* C39, amended: the task of a start() sends at most one Ended, only after
\* stop() has run for it or the service was dropped, and no Update after it.  A task that created its
\* Live Client API client has sent exactly one Ended when it has finished;
\* a task whose client could not be created finishes having sent nothing.
C39_Amended ==
    \A t \in LiveTasks :
        /\ Cardinality(EndedAt(t)) <= 1
        /\ \A i \in EndedAt(t) : i = Len(LiveEventsOf(t))
        /\ EndedAt(t) # {} => LiveStopped(t)
        /\ live_task[t].pc = "done" => Cardinality(EndedAt(t)) = 1
        /\ live_task[t].pc = "failed" => LiveEventsOf(t) = <<>>

\* The first task sent an Update and, after stop(), its Ended, and has
\* finished; the task of the next start() could not create its client.
C39_Witness ==
    /\ live_task[1].pc = "done"
    /\ LiveEventsOf(1) = <<LiveMatchEvent(1, "Update"), LiveMatchEvent(1, "Ended")>>
    /\ live_task[2].pc = "failed"

\* ------------------------------------------------------------------ C40
\* C40: the mode of the loop is WebSocket whenever its push wait-loop is
\* active and Polling whenever its polling sub-loop is active.
C40_ModeIsCurrentTransport ==
    /\ PushActive(1) => mode[1] = "WebSocket"
    /\ PollActive(1) => mode[1] = "Polling"

====
